---------------------------- MODULE Spec2Model ----------------------------
(***************************************************************************)
(* Execution-control subsystem of the nanobasic debugger:                  *)
(*   DebuggerStateManager  (validated state machine, history, skip flag)   *)
(*   BreakpointManager     (breakpoint registry, hit counts, conditions)   *)
(*   Debugger              (coordinator: shouldPause / before / continue)  *)
(*   Interpreter           (re-entrant driver loop: run / resume / step)   *)
(* Every operation of the code is a pure operator over a record d that     *)
(* holds the fields of the three debugger objects; the actions apply the   *)
(* operators to the variables.                                             *)
(***************************************************************************)
EXTENDS Integers, Sequences, FiniteSets, TLC

VARIABLES
    currentState,          \* DebuggerStateManager.currentState
    stepMode,              \* DebuggerStateManager.stepMode
    pauseReason,           \* DebuggerStateManager.pauseReason
    executionContext,      \* DebuggerStateManager.executionContext
    stateHistory,          \* DebuggerStateManager.stateHistory
    recorded,              \* number of calls of recordTransition since construction (history
                           \* variable: the program keeps no such count)
    skipNextPause,         \* DebuggerStateManager.skipNextPause
    breakpoints,           \* BreakpointManager.breakpoints (insertion order)
    nextId,                \* BreakpointManager.nextId
    currentContext,        \* Debugger.currentContext
    currentBreakpointHit,  \* Debugger.currentBreakpointHit
    emitted,               \* events handed to DebuggerEventEmitter.emit by the last operation
    listeners,             \* DebuggerEventEmitter.listeners: the listeners of each event type
    globalListeners,       \* DebuggerEventEmitter.globalListeners
    frames,                \* the chain of Frame objects from the root frame to the current
                           \* frame: frames[i - 1] is the parent of frames[i]
    loops,                 \* the driver invocations in flight when listeners may call
                           \* Debugger.continue: of each the method, the program, the loop
                           \* variable i and the await it is suspended at
    call,                  \* the last operation called, its argument and return value
    isExecuting,           \* Interpreter.isExecuting
    currentLineIndex,      \* Interpreter.currentLineIndex
    nodeDepth,             \* Interpreter.nodeDepth
    locals,                \* Interpreter.currentFrame.locals (the <main> frame, shared with env.vars)
    pc,                    \* position of the driver invocation in flight ("idle" when none)
    site,                  \* index of the next before() call site inside the statement at the cursor
    executed,              \* line numbers of the statements executed by the current run, in order
    currentAst,            \* Interpreter.currentAst: index of the program in Programs, 0 for null
    driver,                \* the driver method in flight or last called: "run", "resume" or "step"
    callbacks,             \* Debugger.onContinueCallback and onStepCallback are set
    command,               \* the UI command (run, continue, step) served last, whether the
                           \* state machine accepted it, and the cursor when it was issued
    thrown,                \* TRUE once an error has propagated out of the last driver invocation
    commands               \* number of UI commands issued so far

dbgVars == <<currentState, stepMode, pauseReason, executionContext, stateHistory, recorded,
             skipNextPause, breakpoints, nextId, currentContext, currentBreakpointHit,
             emitted, listeners, globalListeners, frames, loops>>
interpVars == <<isExecuting, currentLineIndex, nodeDepth, locals, pc, site, executed,
                currentAst, driver, callbacks, command, thrown, commands>>
\* the name of the last operation stands before its record: the arguments and the
\* return values of two different operations are not values of one kind
vars == <<dbgVars, interpVars, call.op, call>>

-----------------------------------------------------------------------------
(* Bounds of the model *)

\* longest transition history explored when the state machine is driven directly
MaxHistory == 5
\* longest transition history explored when the coordinator is called directly
MaxApiHistory == 4
\* number of breakpoints in the registry when the coordinator is called directly
MaxApiBreakpoints == 1
\* largest hit count a breakpoint reaches when the coordinator is called directly
MaxHits == 2
\* number of breakpoints ever added to the registry when the registry is called directly
MaxRegistry == 2
\* number of transitions recorded (the initialization record included) when the history
\* is filled beyond maxHistorySize
MaxRecorded == 102
\* number of frames in a frame chain
MaxFrames == 3
\* number of driver invocations in flight at a time
MaxLoops == 2
\* number of Run commands in a session with a listener that continues
MaxRuns == 1
\* number of listener registrations held by the event emitter at a time
MaxListeners == 3
\* number of breakpoints ever added to the registry during a debugging session
MaxBreakpoints == 2
\* number of UI commands (run, continue, step, breakpoint edits) in one session
MaxCommands == 5

-----------------------------------------------------------------------------
(* DebuggerStateManager.ts: enums and the transition table *)

DebuggerState == {"idle", "running", "paused", "stepping", "error", "terminated"}
StepMode == {"run", "into", "over", "out"}
PauseReason == {"breakpoint", "step", "exception", "user", "end"}

\* JS null of a string-valued field
Null == "null"
\* JS null / undefined of an object-valued field
NullObject == [isNull |-> TRUE]

maxHistorySize == 100

\* mutant: the table lets an errored state machine go back to Running
STATE_TRANSITIONS_ErrorRestarts(s) ==
    CASE s = "idle"       -> {"running", "stepping"}
      [] s = "running"    -> {"paused", "error", "terminated", "idle"}
      [] s = "paused"     -> {"running", "stepping", "terminated", "idle"}
      [] s = "stepping"   -> {"paused", "running", "error", "terminated"}
      [] s = "error"      -> {"idle", "terminated", "running"}
      [] s = "terminated" -> {"idle"}

STATE_TRANSITIONS(s) ==
    CASE s = "idle"       -> {"running", "stepping"}
      [] s = "running"    -> {"paused", "error", "terminated", "idle"}
      [] s = "paused"     -> {"running", "stepping", "terminated", "idle"}
      [] s = "stepping"   -> {"paused", "running", "error", "terminated"}
      [] s = "error"      -> {"idle", "terminated"}
      [] s = "terminated" -> {"idle"}

isValidTransition(from, to) == to \in STATE_TRANSITIONS(from)

isPaused(d) == d.currentState = "paused"
isRunning(d) == d.currentState = "running" \/ d.currentState = "stepping"
isIdle(d) == d.currentState = "idle"
isTerminated(d) == d.currentState = "terminated"
shouldSkipPause(d) == d.skipNextPause

-----------------------------------------------------------------------------
(* DebuggerEvents.ts: the event emitter. A listener is a function of the     *)
(* caller; the model knows three: one that returns, one that throws and one *)
(* that unsubscribes itself from the event's type and returns.              *)

DebuggerEventType == {"stateChanged", "paused", "resumed", "stepped", "breakpointHit",
                      "exception"}

\* Array.prototype.indexOf, 0 when absent, and Array.prototype.splice(index, 1)
indexOf(list, x) ==
    IF \E i \in 1..Len(list) : list[i] = x
    THEN CHOOSE i \in 1..Len(list) : list[i] = x /\ \A j \in 1..(i - 1) : list[j] # x
    ELSE 0
splice(list, index) == SubSeq(list, 1, index - 1) \o SubSeq(list, index + 1, Len(list))

on(d, eventType, listener) == [d EXCEPT !.listeners[eventType] = Append(@, listener)]
onAll(d, listener) == [d EXCEPT !.globalListeners = Append(@, listener)]
off(d, eventType, listener) ==
    LET index == indexOf(d.listeners[eventType], listener)
    IN IF index >= 1 THEN [d EXCEPT !.listeners[eventType] = splice(@, index)] ELSE d
offAll(d, listener) ==
    LET index == indexOf(d.globalListeners, listener)
    IN IF index >= 1 THEN [d EXCEPT !.globalListeners = splice(@, index)] ELSE d
removeAllListeners(d) ==
    [d EXCEPT !.listeners = [t \in DebuggerEventType |-> <<>>], !.globalListeners = <<>>]
getListenerCount(d) ==
    LET RECURSIVE sum(_)
        sum(types) == IF types = {} THEN 0
                      ELSE LET t == CHOOSE t \in types : TRUE
                           IN Len(d.listeners[t]) + sum(types \ {t})
    IN Len(d.globalListeners) + sum(DebuggerEventType)

\* listener(event): the call is recorded with the list it was made from
listenerCall(d, listener, style, event) ==
    LET d1 == [d EXCEPT !.delivered =
                   Append(@, [listener |-> listener, style |-> style,
                              threw |-> listener = "throws"])]
    IN IF listener = "once" THEN off(d1, event.type, listener) ELSE d1

\* list.forEach(listener => { try { listener(event) } catch { console.error } }): forEach
\* visits the indices below the length the list had at the start, in the list as it is
\* when the index is reached; what a listener throws is caught and the loop goes on
RECURSIVE forEachListener(_, _, _, _, _)
forEachListener(d, style, event, k, len) ==
    LET list == IF style = "type" THEN d.listeners[event.type] ELSE d.globalListeners
    IN IF k > len \/ k > Len(list) THEN d
       ELSE forEachListener(listenerCall(d, list[k], style, event), style, event, k + 1, len)

emit(d, event) ==
    LET d1 == [d EXCEPT !.emitted = Append(@, event)]
        d2 == forEachListener(d1, "type", event, 1, Len(d1.listeners[event.type]))
    IN forEachListener(d2, "global", event, 1, Len(d2.globalListeners))

-----------------------------------------------------------------------------
(* Debugger (coordinator): the state listener it installs on the state machine *)

\* a || b of JavaScript on numbers: 0 is falsy
OrElse(a, b) == IF a # 0 THEN a ELSE b

updateExecutionContext(d, context) ==
    LET old == d.executionContext
        has == old # NullObject
    IN [d EXCEPT !.executionContext =
            [currentLine   |-> OrElse(context.currentLine,
                                      OrElse(IF has THEN old.currentLine ELSE 0, 0)),
             currentColumn |-> OrElse(context.currentColumn,
                                      OrElse(IF has THEN old.currentColumn ELSE 0, 0)),
             nodeDepth     |-> OrElse(context.nodeDepth,
                                      OrElse(IF has THEN old.nodeDepth ELSE 0, 0)),
             frameName     |-> IF context.frameName # "" THEN context.frameName
                               ELSE IF has /\ old.frameName # "" THEN old.frameName
                               ELSE "<main>"]]

getCurrentLocation(d) ==
    IF d.currentContext # NullObject /\ d.currentContext.span # NullObject
    THEN d.currentContext.span
    ELSE NullObject

emitStateChange(d) ==
    emit(d, [type |-> "stateChanged", status |-> d.currentState,
             mode |-> d.stepMode, isPaused |-> isPaused(d)])

mapPauseReasonToEventReason(r) == IF r \in PauseReason THEN r ELSE "step"

onStateChange(d, to) ==
    LET d1 == IF d.currentContext # NullObject /\ d.currentContext.span # NullObject
              THEN updateExecutionContext(d,
                       [currentLine   |-> d.currentContext.span.line,
                        currentColumn |-> d.currentContext.span.column,
                        nodeDepth     |-> d.currentContext.nodeDepth,
                        frameName     |-> d.currentContext.frameName])
              ELSE d
        d2 == emitStateChange(d1)
    IN CASE to = "paused" ->
                emit(d2, [type |-> "paused",
                          reason |-> mapPauseReasonToEventReason(d2.pauseReason),
                          location |-> getCurrentLocation(d2)])
         [] to \in {"running", "stepping"} ->
                emit(d2, [type |-> "resumed",
                          mode |-> IF to = "stepping" THEN "step" ELSE "run"])
         [] OTHER -> d2

-----------------------------------------------------------------------------
(* DebuggerStateManager.ts: the operations *)

\* mutant: a full history drops the record just pushed instead of the oldest one
recordTransition_DropsNewest(d, from, to) ==
    LET pushed == Append(d.stateHistory, [from |-> from, to |-> to])
        kept == IF Len(pushed) > maxHistorySize
                THEN SubSeq(pushed, 1, maxHistorySize) ELSE pushed
    IN onStateChange([d EXCEPT !.stateHistory = kept, !.recorded = @ + 1], to)

recordTransition(d, from, to) ==
    LET pushed == Append(d.stateHistory, [from |-> from, to |-> to])
        kept == IF Len(pushed) > maxHistorySize THEN Tail(pushed) ELSE pushed
    IN onStateChange([d EXCEPT !.stateHistory = kept, !.recorded = @ + 1], to)

\* mutant: the transition is performed without consulting the table
transitionTo_Unvalidated(d, newState) ==
    [recordTransition(
         [d EXCEPT !.currentState = newState,
                   !.pauseReason = IF newState # "paused" THEN Null ELSE @],
         d.currentState, newState)
     EXCEPT !.ret = TRUE]

\* mutant: a transition out of the running states drops the skip flag
transitionTo_DropsSkip(d, newState) ==
    IF ~isValidTransition(d.currentState, newState)
    THEN [d EXCEPT !.ret = FALSE]
    ELSE [recordTransition(
              [d EXCEPT !.currentState = newState,
                        !.pauseReason = IF newState # "paused" THEN Null ELSE @,
                        !.skipNextPause = IF newState \in {"running", "stepping"}
                                          THEN @ ELSE FALSE],
              d.currentState, newState)
          EXCEPT !.ret = TRUE]

transitionTo(d, newState) ==
    IF ~isValidTransition(d.currentState, newState)
    THEN [d EXCEPT !.ret = FALSE]
    ELSE [recordTransition(
              [d EXCEPT !.currentState = newState,
                        !.pauseReason = IF newState # "paused" THEN Null ELSE @],
              d.currentState, newState)
          EXCEPT !.ret = TRUE]

startExecution(d) ==
    IF d.currentState = "idle"
    THEN transitionTo([d EXCEPT !.stepMode = "run"], "running")
    ELSE [d EXCEPT !.ret = FALSE]

pauseExecution(d, reason) ==
    IF isRunning(d)
    THEN transitionTo([d EXCEPT !.pauseReason = reason], "paused")
    ELSE [d EXCEPT !.ret = FALSE]

\* mutant: resume is attempted from whatever state is current
resumeExecution_AnyState(d) ==
    transitionTo([d EXCEPT !.stepMode = "run", !.skipNextPause = TRUE], "running")

\* mutant: the resumption does not set the skip-next-pause flag
resumeExecution_WithoutSkip(d) ==
    IF d.currentState = "paused"
    THEN transitionTo([d EXCEPT !.stepMode = "run"], "running")
    ELSE [d EXCEPT !.ret = FALSE]

resumeExecution(d) ==
    IF d.currentState = "paused"
    THEN transitionTo([d EXCEPT !.stepMode = "run", !.skipNextPause = TRUE], "running")
    ELSE [d EXCEPT !.ret = FALSE]

\* mutant: stepping is also attempted from Running
stepExecution_FromRunning(d, mode) ==
    IF d.currentState \in {"paused", "idle", "running"}
    THEN transitionTo([d EXCEPT !.stepMode = mode, !.skipNextPause = TRUE], "stepping")
    ELSE [d EXCEPT !.ret = FALSE]

stepExecution(d, mode) ==
    IF d.currentState = "paused" \/ d.currentState = "idle"
    THEN transitionTo([d EXCEPT !.stepMode = mode, !.skipNextPause = TRUE], "stepping")
    ELSE [d EXCEPT !.ret = FALSE]

handleError(d) ==
    IF isRunning(d)
    THEN transitionTo(d, "error")
    ELSE [d EXCEPT !.ret = FALSE]

terminateExecution(d) ==
    IF ~isTerminated(d) /\ ~isIdle(d)
    THEN transitionTo(d, "terminated")
    ELSE [d EXCEPT !.ret = FALSE]

reset(d) ==
    transitionTo([d EXCEPT !.stepMode = "run", !.pauseReason = Null,
                           !.executionContext = NullObject,
                           !.skipNextPause = FALSE], "idle")

setSkipNextPause(d, skip) == [d EXCEPT !.skipNextPause = skip]

-----------------------------------------------------------------------------
(* JavaScript values held in frame locals, and the conversions the registry *)
(* applies to them and to condition strings                                 *)

Undefined == [t |-> "undefined"]
Num(n) == [t |-> "num", v |-> n]
Str(s) == [t |-> "str", v |-> s]

\* truthiness of a value on the left of ||
Truthy(v) == CASE v.t = "num" -> v.v # 0
               [] v.t = "str" -> v.v # ""
               [] OTHER -> FALSE

NumToString(n) == CASE n = 0 -> "0" [] n = 1 -> "1" [] n = 2 -> "2" [] n = 5 -> "5"

\* value?.toString(); undefined stays undefined (rendered here as a value no string equals)
ToStringOpt(v) == CASE v.t = "num" -> Str(NumToString(v.v))
                    [] v.t = "str" -> v
                    [] OTHER -> Undefined

\* the condition strings used in the model
HasEquals(e) == e \in {"X=5", "X=0", "X=", "$X = 5"}
\* expression.split('=').map(s => s.trim()), then varName.replace('$', '')
SplitName(e) == "X"
SplitExpected(e) == CASE e = "X=5" -> "5" [] e = "$X = 5" -> "5" [] e = "X=0" -> "0"
                      [] e = "X=" -> ""

\* a string-valued property that is missing (undefined)
UndefinedString == "undefined"

NaN == -1
parseInt(e) == CASE e = "1" -> 1 [] e = "2" -> 2 [] e = "3" -> 3 [] OTHER -> NaN

-----------------------------------------------------------------------------
(* BreakpointManager.ts *)

locationsMatch(loc1, loc2) == loc1.line = loc2.line /\ loc1.column = loc2.column

\* index (in insertion order) of the first breakpoint at the location, 0 when none
findBreakpointAt(d, location) ==
    LET at == {i \in 1..Len(d.breakpoints) :
                   locationsMatch(d.breakpoints[i].location, location)}
    IN IF at = {} THEN 0 ELSE CHOOSE i \in at : \A j \in at : i <= j

\* index of the breakpoint with the id, 0 when none
getBreakpoint(d, id) ==
    LET at == {i \in 1..Len(d.breakpoints) : d.breakpoints[i].id = id}
    IN IF at = {} THEN 0 ELSE CHOOSE i \in at : TRUE

\* the coordinator listens to every registry event and re-emits the state
notifyListeners(d, eventType) == emitStateChange(d)

addBreakpoint(d, location, options) ==
    LET bp == [id |-> d.nextId, location |-> location, enabled |-> options.enabled,
               condition |-> options.condition, hitCount |-> 0,
               logMessage |-> options.logMessage]
    IN notifyListeners([d EXCEPT !.breakpoints = Append(@, bp), !.nextId = @ + 1,
                                 !.ret = d.nextId], "added")

RemoveAt(seq, i) == SubSeq(seq, 1, i - 1) \o SubSeq(seq, i + 1, Len(seq))

removeBreakpoint(d, id) ==
    LET i == getBreakpoint(d, id)
    IN IF i = 0 THEN [d EXCEPT !.ret = FALSE]
       ELSE notifyListeners([d EXCEPT !.breakpoints = RemoveAt(@, i), !.ret = TRUE],
                            "removed")

removeBreakpointAt(d, location) ==
    LET i == findBreakpointAt(d, location)
    IN IF i = 0 THEN [d EXCEPT !.ret = FALSE]
       ELSE removeBreakpoint(d, d.breakpoints[i].id)

\* mutant: toggling a breakpoint starts its hit count again
toggleBreakpoint_ResetsHits(d, id) ==
    LET i == getBreakpoint(d, id)
    IN IF i = 0 THEN [d EXCEPT !.ret = FALSE]
       ELSE notifyListeners([d EXCEPT !.breakpoints[i].enabled = ~@,
                                      !.breakpoints[i].hitCount = 0, !.ret = TRUE],
                            "toggled")

toggleBreakpoint(d, id) ==
    LET i == getBreakpoint(d, id)
    IN IF i = 0 THEN [d EXCEPT !.ret = FALSE]
       ELSE notifyListeners([d EXCEPT !.breakpoints[i].enabled = ~@, !.ret = TRUE],
                            "toggled")

setBreakpointCondition(d, id, condition) ==
    LET i == getBreakpoint(d, id)
    IN IF i = 0 THEN [d EXCEPT !.ret = FALSE]
       ELSE notifyListeners([d EXCEPT !.breakpoints[i].condition = condition,
                                      !.ret = TRUE], "conditionChanged")

RECURSIVE notifyRemoved(_, _)
notifyRemoved(d, n) == IF n = 0 THEN d ELSE notifyRemoved(notifyListeners(d, "removed"), n - 1)

clearAll(d) == notifyRemoved([d EXCEPT !.breakpoints = <<>>], Len(d.breakpoints))

\* a condition without an expression string: expression.includes throws, the catch
\* returns true
evaluateExpression(expression, context) ==
    IF expression = UndefinedString THEN TRUE
    ELSE IF HasEquals(expression)
    THEN LET name == SplitName(expression)
             inFrame == context.locals[name]
             actualValue == IF Truthy(inFrame) THEN inFrame ELSE Undefined
         IN ToStringOpt(actualValue) = Str(SplitExpected(expression))
    ELSE TRUE

evaluateCondition(d, condition, context) ==
    CASE condition.type = "expression" ->
             evaluateExpression(condition.expression, context)
      [] condition.type = "hitCount" ->
             \* a context without a location: locationsMatch throws on the first
             \* breakpoint, the catch returns true
             IF context.location = NullObject THEN TRUE
             ELSE LET targetHits == parseInt(condition.expression)
                      i == findBreakpointAt(d, context.location)
                  IN IF i # 0
                     THEN targetHits # NaN /\ d.breakpoints[i].hitCount >= targetHits
                     ELSE FALSE
      [] condition.type = "logMessage" -> FALSE
      [] OTHER -> TRUE

\* ret: the index of the breakpoint of the hit, 0 for null
\* mutant: the hit is counted only when the condition lets the breakpoint pause
shouldPauseAt_CountsPausesOnly(d, location, context) ==
    LET i == findBreakpointAt(d, location)
    IN IF i = 0 \/ ~d.breakpoints[i].enabled
       THEN [d EXCEPT !.ret = 0]
       ELSE LET bp == d.breakpoints[i]
            IN IF bp.condition # NullObject /\ ~evaluateCondition(d, bp.condition, context)
               THEN [d EXCEPT !.ret = 0]
               ELSE [notifyListeners([d EXCEPT !.breakpoints[i].hitCount = @ + 1], "hit")
                     EXCEPT !.ret = i]

shouldPauseAt(d, location, context) ==
    LET i == findBreakpointAt(d, location)
    IN IF i = 0 \/ ~d.breakpoints[i].enabled
       THEN [d EXCEPT !.ret = 0]
       ELSE LET d1 == [d EXCEPT !.breakpoints[i].hitCount = @ + 1]
                bp == d1.breakpoints[i]
            IN IF bp.condition # NullObject /\ ~evaluateCondition(d1, bp.condition, context)
               THEN [d1 EXCEPT !.ret = 0]
               ELSE [notifyListeners(d1, "hit") EXCEPT !.ret = i]

\* JSON text, as the value JSON.parse makes of it: kind is "unparseable" for text that
\* JSON.parse rejects, "null" for the text null, "noKey" for an object without a
\* breakpoints key, "notArray" for one whose breakpoints is not an array, and "array"
\* with the entries otherwise.  An entry's kind is "null" (null), "noLocation",
\* "lineNotNumber" or "ok"; booleans are written true / false, and a key whose value
\* is undefined is left out by JSON.stringify
JsonAbsent == [absent |-> TRUE]
JsonAbsentString == "absent"

\* mutant: the export leaves the log message out
stringifyBreakpoint_WithoutLogMessage(bp) ==
    [kind |-> "ok",
     location |-> bp.location,
     enabled |-> IF bp.enabled THEN "true" ELSE "false",
     condition |-> IF bp.condition = NullObject THEN JsonAbsent ELSE bp.condition,
     logMessage |-> JsonAbsentString]

stringifyBreakpoint(bp) ==
    [kind |-> "ok",
     location |-> bp.location,
     enabled |-> IF bp.enabled THEN "true" ELSE "false",
     condition |-> IF bp.condition = NullObject THEN JsonAbsent ELSE bp.condition,
     logMessage |-> IF bp.logMessage = Null THEN JsonAbsentString ELSE bp.logMessage]

exportBreakpoints(d) ==
    [kind |-> "array",
     entries |-> [i \in 1..Len(d.breakpoints) |-> stringifyBreakpoint(d.breakpoints[i])]]

\* the options importBreakpoints passes to addBreakpoint for an entry; enabled ?? true
importedOptions(bpData) ==
    [enabled |-> CASE bpData.enabled = "true" -> TRUE
                   [] bpData.enabled = "false" -> FALSE
                   [] OTHER -> TRUE,
     condition |-> IF bpData.condition = JsonAbsent THEN NullObject ELSE bpData.condition,
     logMessage |-> IF bpData.logMessage = JsonAbsentString THEN Null
                    ELSE bpData.logMessage]

\* mutant: the loop stops at the first entry that fails
importEntries_AbortsOnError(d, entries, n, imported, errors) ==
    LET failed == {k \in n..Len(entries) : entries[k].kind # "ok"}
        last == IF failed = {} THEN Len(entries)
                ELSE (CHOOSE k \in failed : \A j \in failed : k <= j) - 1
        RECURSIVE addAll(_, _)
        addAll(dd, k) ==
            IF k > last THEN dd
            ELSE addAll(addBreakpoint(dd, entries[k].location, importedOptions(entries[k])),
                        k + 1)
    IN [addAll(d, n) EXCEPT !.ret =
            [success |-> failed = {}, imported |-> last - n + 1,
             errors |-> IF failed = {} THEN <<>> ELSE <<"Invalid breakpoint location">>]]

\* the loop of importBreakpoints over the entries from index n on
RECURSIVE importEntries(_, _, _, _, _)
importEntries(d, entries, n, imported, errors) ==
    IF n > Len(entries)
    THEN [d EXCEPT !.ret = [success |-> errors = <<>>, imported |-> imported,
                            errors |-> errors]]
    ELSE LET bpData == entries[n]
         IN CASE bpData.kind = "null" ->
                    importEntries(d, entries, n + 1, imported,
                                  Append(errors, "Failed to import breakpoint"))
              [] bpData.kind \in {"noLocation", "lineNotNumber"} ->
                    importEntries(d, entries, n + 1, imported,
                                  Append(errors, "Invalid breakpoint location"))
              [] OTHER ->
                    importEntries(addBreakpoint(d, bpData.location, importedOptions(bpData)),
                                  entries, n + 1, imported + 1, errors)

\* mutant: data without a breakpoints array is taken as an empty import
importBreakpoints_Lenient(d, jsonData) ==
    CASE jsonData.kind \in {"unparseable", "null"} ->
             [d EXCEPT !.ret = [success |-> FALSE, imported |-> 0,
                                errors |-> <<"Parse error">>]]
      [] jsonData.kind \in {"noKey", "notArray"} ->
             [d EXCEPT !.ret = [success |-> TRUE, imported |-> 0, errors |-> <<>>]]
      [] OTHER -> importEntries(d, jsonData.entries, 1, 0, <<>>)

importBreakpoints(d, jsonData) ==
    CASE jsonData.kind \in {"unparseable", "null"} ->
             [d EXCEPT !.ret = [success |-> FALSE, imported |-> 0,
                                errors |-> <<"Parse error">>]]
      [] jsonData.kind \in {"noKey", "notArray"} ->
             [d EXCEPT !.ret = [success |-> FALSE, imported |-> 0,
                                errors |-> <<"Invalid breakpoint data format">>]]
      [] OTHER -> importEntries(d, jsonData.entries, 1, 0, <<>>)

-----------------------------------------------------------------------------
(* Debugger (coordinator): shouldPause, before and the command surface *)

\* shouldPause with the step check placed before the skip-flag check
shouldPause_SteppingFirst(d, ctx) ==
    IF d.currentState = "stepping"
    THEN [d EXCEPT !.ret = TRUE]
    ELSE IF shouldSkipPause(d)
    THEN [setSkipNextPause(d, FALSE) EXCEPT !.ret = FALSE]
    ELSE IF ctx.span # NullObject
    THEN LET location == [line |-> ctx.span.line, column |-> ctx.span.column]
             context == [location |-> location, locals |-> ctx.locals]
             r == shouldPauseAt(d, location, context)
         IN IF r.ret # 0
            THEN [r EXCEPT !.currentBreakpointHit = r.breakpoints[r.ret].id, !.ret = TRUE]
            ELSE [r EXCEPT !.ret = FALSE]
    ELSE [d EXCEPT !.ret = FALSE]

\* shouldPause with the registry queried before the step check
shouldPause_RegistryFirst(d, ctx) ==
    IF shouldSkipPause(d)
    THEN [setSkipNextPause(d, FALSE) EXCEPT !.ret = FALSE]
    ELSE LET location == [line |-> ctx.span.line, column |-> ctx.span.column]
             context == [location |-> location, locals |-> ctx.locals]
             r == IF ctx.span # NullObject THEN shouldPauseAt(d, location, context)
                  ELSE [d EXCEPT !.ret = 0]
         IN IF r.ret # 0
            THEN [r EXCEPT !.currentBreakpointHit = r.breakpoints[r.ret].id, !.ret = TRUE]
            ELSE [r EXCEPT !.ret = (d.currentState = "stepping")]

\* ctx: [span, nodeDepth, frameName, locals]; span is NullObject for a node without one
shouldPause(d, ctx) ==
    IF shouldSkipPause(d)
    THEN [setSkipNextPause(d, FALSE) EXCEPT !.ret = FALSE]
    ELSE IF d.currentState = "stepping"
    THEN [d EXCEPT !.ret = TRUE]
    ELSE IF ctx.span # NullObject
    THEN LET location == [line |-> ctx.span.line, column |-> ctx.span.column]
             context == [location |-> location, locals |-> ctx.locals]
             r == shouldPauseAt(d, location, context)
         IN IF r.ret # 0
            THEN [r EXCEPT !.currentBreakpointHit = r.breakpoints[r.ret].id, !.ret = TRUE]
            ELSE [r EXCEPT !.ret = FALSE]
    ELSE [d EXCEPT !.ret = FALSE]

\* the frame of ctx is held by reference: the context keeps its name, not its bindings
ContextOf(ctx) == [span |-> ctx.span, nodeDepth |-> ctx.nodeDepth, frameName |-> ctx.frameName]

\* mutant: every pause taken by before() is reported as a breakpoint pause
before_ReasonBreakpoint(d, ctx) ==
    LET s == shouldPause(d, ctx)
    IN IF ~s.ret THEN s
       ELSE pauseExecution([s EXCEPT !.currentContext = ContextOf(ctx),
                                     !.currentBreakpointHit = 0], "breakpoint")

before(d, ctx) ==
    LET s == shouldPause(d, ctx)
    IN IF ~s.ret THEN s
       ELSE LET d1 == [s EXCEPT !.currentContext = ContextOf(ctx)]
                hit == d1.currentBreakpointHit # 0
                d2 == IF hit
                      THEN [emit(d1, [type |-> "breakpointHit",
                                      breakpoint |-> d1.currentBreakpointHit,
                                      hitCount |-> d1.breakpoints[
                                          getBreakpoint(d1, d1.currentBreakpointHit)].hitCount])
                            EXCEPT !.currentBreakpointHit = 0]
                      ELSE d1
            IN pauseExecution(d2, IF hit THEN "breakpoint" ELSE "step")

\* Debugger.resume and Debugger.setStepMode, called by Interpreter.step
resume(d) == resumeExecution(d)
setStepMode_NotRearmed(d) == [d EXCEPT !.ret = FALSE]
setStepMode(d) == stepExecution(d, "into")

\* Debugger.continue and Debugger.step, called by the UI
continue(d) == resumeExecution(d)
step(d) == emit(stepExecution(d, "into"), [type |-> "stepped"])

resetState(d) == [reset(d) EXCEPT !.currentContext = NullObject, !.currentBreakpointHit = 0]

\* mutant: onException does not call before() again
onException_WithoutBefore(d, ctx) ==
    handleError(emit(d, [type |-> "exception", location |-> ctx.span]))
onException(d, ctx) ==
    LET d1 == emit(d, [type |-> "exception", location |-> ctx.span])
        d2 == handleError(d1)
    IN before(d2, ctx)

currentStepMode(d) == IF d.stepMode = "into" THEN "in" ELSE d.stepMode

-----------------------------------------------------------------------------
(* Frame.ts: a frame's locals is a plain object: it has the keys assigned to it *)
(* and inherits those of Object.prototype                                     *)

\* the slot of a key the object does not have itself
Unbound == [t |-> "unbound"]
\* keys every plain object inherits, and the function found under them
ObjectPrototypeKeys == {"constructor", "toString", "valueOf", "hasOwnProperty"}
Inherited == [t |-> "function"]
\* the names looked up and assigned
FrameKeys == {"X", "constructor"}
NoLocals == [k \in FrameKeys |-> Unbound]

\* new Frame({name, locals: {}, parent, callDepth})
Frame(name, callDepth) == [name |-> name, locals |-> NoLocals, callDepth |-> callDepth]

\* k in locals, and locals[k]
HasKey(object, k) == object[k] # Unbound \/ k \in ObjectPrototypeKeys
Get(object, k) ==
    IF object[k] # Unbound THEN object[k]
    ELSE IF k \in ObjectPrototypeKeys THEN Inherited ELSE Undefined

\* throw new ReferenceError(...)
ReferenceError == [raised |-> TRUE, value |-> Undefined]

\* Frame.lookup of the last frame of the chain: the value returned, or the error raised
RECURSIVE lookup(_, _)
lookup(chain, k) ==
    LET frame == chain[Len(chain)]
    IN IF HasKey(frame.locals, k) THEN [raised |-> FALSE, value |-> Get(frame.locals, k)]
       ELSE IF Len(chain) > 1 THEN lookup(SubSeq(chain, 1, Len(chain) - 1), k)
       ELSE ReferenceError

\* Frame.set of the last frame of the chain
set(chain, k, v) == [chain EXCEPT ![Len(chain)].locals[k] = v]

-----------------------------------------------------------------------------
(* The state of the three debugger objects as one record, and back *)

Dbg == [currentState |-> currentState, stepMode |-> stepMode, pauseReason |-> pauseReason,
        executionContext |-> executionContext, stateHistory |-> stateHistory,
        recorded |-> recorded,
        skipNextPause |-> skipNextPause, breakpoints |-> breakpoints, nextId |-> nextId,
        currentContext |-> currentContext, currentBreakpointHit |-> currentBreakpointHit,
        emitted |-> <<>>, listeners |-> listeners, globalListeners |-> globalListeners,
        delivered |-> <<>>, frames |-> frames, loops |-> loops, ret |-> FALSE]

Commit(d) ==
    /\ currentState' = d.currentState
    /\ stepMode' = d.stepMode
    /\ pauseReason' = d.pauseReason
    /\ executionContext' = d.executionContext
    /\ stateHistory' = d.stateHistory
    /\ recorded' = d.recorded
    /\ skipNextPause' = d.skipNextPause
    /\ breakpoints' = d.breakpoints
    /\ nextId' = d.nextId
    /\ currentContext' = d.currentContext
    /\ currentBreakpointHit' = d.currentBreakpointHit
    /\ emitted' = d.emitted
    /\ listeners' = d.listeners
    /\ globalListeners' = d.globalListeners
    /\ frames' = d.frames
    /\ loops' = d.loops

Init ==
    /\ currentState = "idle"
    /\ stepMode = "run"
    /\ pauseReason = Null
    /\ executionContext = NullObject
    /\ stateHistory = <<[from |-> "idle", to |-> "idle"]>>
    /\ recorded = 1
    /\ skipNextPause = FALSE
    /\ breakpoints = <<>>
    /\ nextId = 1
    /\ currentContext = NullObject
    /\ currentBreakpointHit = 0
    /\ emitted = <<>>
    /\ listeners = [t \in DebuggerEventType |-> <<>>]
    /\ globalListeners = <<>>
    /\ frames = <<Frame("<main>", 0)>>
    /\ loops = <<>>
    /\ call = [op |-> "new", arg |-> Null, ret |-> TRUE]
    /\ isExecuting = FALSE
    /\ currentLineIndex = 0
    /\ nodeDepth = 0
    /\ locals = [x \in {"X"} |-> Undefined]
    /\ pc = "idle"
    /\ site = 0
    /\ executed = <<>>
    /\ currentAst = 0
    /\ driver = "run"
    /\ callbacks = FALSE
    /\ command = [name |-> "run", accepted |-> TRUE, cursor |-> 0]
    /\ thrown = FALSE
    /\ commands = 0

-----------------------------------------------------------------------------
(* SpecSM: the public operations of the state machine, called in any order *)

Returns(op, arg, d) ==
    /\ Commit(d)
    /\ call' = [op |-> op, arg |-> arg, ret |-> d.ret]

SmTransitionTo ==
    /\ Len(stateHistory) < MaxHistory
    /\ \E t \in DebuggerState : Returns("transitionTo", t, transitionTo(Dbg, t))
    /\ UNCHANGED interpVars

SmStartExecution ==
    /\ Len(stateHistory) < MaxHistory
    /\ Returns("startExecution", Null, startExecution(Dbg))
    /\ UNCHANGED interpVars

SmPauseExecution ==
    /\ Len(stateHistory) < MaxHistory
    /\ \E r \in PauseReason : Returns("pauseExecution", r, pauseExecution(Dbg, r))
    /\ UNCHANGED interpVars

SmResumeExecution ==
    /\ Len(stateHistory) < MaxHistory
    /\ Returns("resumeExecution", Null, resumeExecution(Dbg))
    /\ UNCHANGED interpVars

SmStepExecution ==
    /\ Len(stateHistory) < MaxHistory
    /\ \E m \in StepMode : Returns("stepExecution", m, stepExecution(Dbg, m))
    /\ UNCHANGED interpVars

SmHandleError ==
    /\ Len(stateHistory) < MaxHistory
    /\ Returns("handleError", Null, handleError(Dbg))
    /\ UNCHANGED interpVars

SmTerminateExecution ==
    /\ Len(stateHistory) < MaxHistory
    /\ Returns("terminateExecution", Null, terminateExecution(Dbg))
    /\ UNCHANGED interpVars

SmReset ==
    /\ Len(stateHistory) < MaxHistory
    /\ Returns("reset", Null, reset(Dbg))
    /\ UNCHANGED interpVars

\* the contexts before() is called with when it is called directly
Locations == {[line |-> 10, column |-> 1], [line |-> 10, column |-> 4]}
Contexts ==
    [span : Locations \cup {NullObject}, nodeDepth : {0, 1}, frameName : {"<main>"},
     locals : {[x \in {"X"} |-> Undefined]}]

\* before() on a state machine whose registry is empty
SmBefore ==
    /\ Len(stateHistory) < MaxHistory
    /\ \E ctx \in Contexts : Returns("before", ctx, before(Dbg, ctx))
    /\ UNCHANGED interpVars

NextSM ==
    \/ SmTransitionTo
    \/ SmStartExecution
    \/ SmPauseExecution
    \/ SmResumeExecution
    \/ SmStepExecution
    \/ SmHandleError
    \/ SmTerminateExecution
    \/ SmReset
    \/ SmBefore

SpecSM == Init /\ [][NextSM]_vars

-----------------------------------------------------------------------------
(* SpecApi: the coordinator's before() called directly, in any state the state *)
(* machine's operations lead to and with any breakpoint at the node            *)

\* the location breakpoints are put on, and the options they are added with
ApiLocation == [line |-> 10, column |-> 1]
ApiConditions == {NullObject,
                  [type |-> "logMessage", expression |-> "reached"],
                  [type |-> "hitCount", expression |-> "2"]}
ApiOptions == [enabled : {TRUE}, condition : ApiConditions, logMessage : {Null}]
\* the nodes before() is called with: the line's node, a node elsewhere and a
\* node without a span
ApiContexts == {ctx \in Contexts : ctx.nodeDepth = 0}

ApiBounded == Len(stateHistory) < MaxApiHistory

ApiAddBreakpoint ==
    /\ ApiBounded
    /\ Len(breakpoints) < MaxApiBreakpoints
    /\ \E o \in ApiOptions :
          Returns("addBreakpoint", o, addBreakpoint(Dbg, ApiLocation, o))
    /\ UNCHANGED interpVars

ApiToggleBreakpoint ==
    /\ ApiBounded
    /\ \E i \in 1..Len(breakpoints) :
          Returns("toggleBreakpoint", breakpoints[i].id,
                  toggleBreakpoint(Dbg, breakpoints[i].id))
    /\ UNCHANGED interpVars

ApiBefore ==
    /\ ApiBounded
    /\ \A i \in 1..Len(breakpoints) : breakpoints[i].hitCount < MaxHits
    /\ \E ctx \in ApiContexts : Returns("before", ctx, before(Dbg, ctx))
    /\ UNCHANGED interpVars

ApiOnException ==
    /\ ApiBounded
    /\ \A i \in 1..Len(breakpoints) : breakpoints[i].hitCount < MaxHits
    /\ \E ctx \in ApiContexts : Returns("onException", ctx, onException(Dbg, ctx))
    /\ UNCHANGED interpVars

ApiTransitionTo ==
    /\ ApiBounded
    /\ \E t \in DebuggerState : Returns("transitionTo", t, transitionTo(Dbg, t))
    /\ UNCHANGED interpVars

ApiContinue ==
    /\ ApiBounded
    /\ Returns("continue", Null, continue(Dbg))
    /\ UNCHANGED interpVars

ApiStep ==
    /\ ApiBounded
    /\ Returns("step", Null, step(Dbg))
    /\ UNCHANGED interpVars

NextApi ==
    \/ ApiAddBreakpoint
    \/ ApiToggleBreakpoint
    \/ ApiBefore
    \/ ApiOnException
    \/ ApiTransitionTo
    \/ ApiContinue
    \/ ApiStep

SpecApi == Init /\ [][NextApi]_vars

-----------------------------------------------------------------------------
(* interpreter.ts: the re-entrant driver.  A driver invocation runs to its     *)
(* return without interleaving (its awaits resolve as microtasks), so the UI   *)
(* commands are taken only while no invocation is in flight (pc = "idle").     *)

\* the programs handed to interpreter(ast, dbg): one line per entry.  The third
\* one ends in an assignment whose BINARY_EXPRESSION lacks its left operand:
\* before() of the missing node throws
ProgramOk ==
    <<[line |-> 10, type |-> "ASSIGNMENT_STATEMENT", malformed |-> FALSE],
      [line |-> 20, type |-> "PRINT_STATEMENT", malformed |-> FALSE],
      [line |-> 30, type |-> "END", malformed |-> FALSE]>>
ProgramShort ==
    <<[line |-> 10, type |-> "PRINT_STATEMENT", malformed |-> FALSE]>>
ProgramMalformed ==
    <<[line |-> 10, type |-> "PRINT_STATEMENT", malformed |-> FALSE],
      [line |-> 20, type |-> "ASSIGNMENT_STATEMENT", malformed |-> TRUE]>>
Programs == <<ProgramOk, ProgramShort, ProgramMalformed>>

body == Programs[currentAst]
\* body[currentLineIndex] of the code, whose indices start at 0
CurrentLine == body[currentLineIndex + 1]

\* the before() calls made for the statement of a line after executeLine's own, in
\* order: the column of the node and its depth below the statement
CallSites(stmt) ==
    CASE stmt.type = "ASSIGNMENT_STATEMENT" /\ ~stmt.malformed ->
            <<[column |-> 4, depth |-> 0], [column |-> 4, depth |-> 0],
              [column |-> 12, depth |-> 1]>>
      [] stmt.type = "ASSIGNMENT_STATEMENT" /\ stmt.malformed ->
            <<[column |-> 4, depth |-> 0], [column |-> 4, depth |-> 0],
              [column |-> 12, depth |-> 1], [column |-> 12, depth |-> 1]>>
      [] stmt.type = "PRINT_STATEMENT" ->
            <<[column |-> 4, depth |-> 0], [column |-> 4, depth |-> 0],
              [column |-> 10, depth |-> 1]>>
      [] OTHER -> <<[column |-> 4, depth |-> 0]>>

\* nodeDepth increments not undone when the malformed expression throws
ThrowDepth == 2

NodeContext(line, column, depth) ==
    [span |-> [line |-> line, column |-> column], nodeDepth |-> depth,
     frameName |-> "<main>", locals |-> locals]

\* interpreter(ast, dbg) is called by the UI's Run command, or by the callback that
\* Debugger.continue and Debugger.step have just called
Entered ==
    \/ /\ pc = "idle" /\ commands < MaxCommands
       /\ commands' = commands + 1
       /\ command' = [name |-> "run", accepted |-> TRUE, cursor |-> currentLineIndex]
    \/ /\ pc = "callback"
       /\ UNCHANGED <<commands, command>>

\* interpreter(ast, dbg) with no execution in progress: resetState, then run(ast) up to
\* its first executeLine
InterpreterRun ==
    /\ Entered
    /\ ~isExecuting
    /\ \E ast \in 1..Len(Programs) :
          LET d == startExecution(resetState(Dbg))
          IN /\ Returns("run", ast, d)
             /\ currentAst' = ast
    /\ isExecuting' = TRUE
    /\ currentLineIndex' = 0
    /\ nodeDepth' = 0
    /\ locals' = [x \in {"X"} |-> Undefined]
    /\ executed' = <<>>
    /\ driver' = "run"
    /\ pc' = "line"
    /\ site' = 0
    /\ thrown' = FALSE
    /\ UNCHANGED callbacks

\* interpreter(ast, dbg) with an execution in progress and a step mode other than Into:
\* resume() up to its first executeLine
InterpreterResume ==
    /\ Entered
    /\ isExecuting /\ currentStepMode(Dbg) # "in"
    /\ Returns("resume", Null, Dbg)
    /\ driver' = "resume"
    /\ pc' = "line"
    /\ site' = 0
    /\ thrown' = FALSE
    /\ UNCHANGED <<isExecuting, currentLineIndex, nodeDepth, locals, executed, currentAst,
                   callbacks>>

\* interpreter(ast, dbg) with an execution in progress and step mode Into: step() up to
\* its executeLine
InterpreterStep ==
    /\ Entered
    /\ isExecuting /\ currentStepMode(Dbg) = "in"
    /\ Returns("step", Null, resume(Dbg))
    /\ driver' = "step"
    /\ pc' = "line"
    /\ site' = 0
    /\ thrown' = FALSE
    /\ UNCHANGED <<isExecuting, currentLineIndex, nodeDepth, locals, executed, currentAst,
                   callbacks>>

\* executeLine up to executeStatement: before(line), the early return when paused
ExecuteLine ==
    /\ pc = "line"
    /\ LET ctx == NodeContext(CurrentLine.line, 1, nodeDepth)
           d == before(Dbg, ctx)
       IN /\ Returns("before", ctx, d)
          /\ IF isPaused(d)
             THEN pc' = "loop" /\ UNCHANGED <<nodeDepth, site>>
             ELSE pc' = "stmt" /\ nodeDepth' = nodeDepth + 1 /\ site' = 1
    /\ UNCHANGED <<isExecuting, currentLineIndex, locals, executed, currentAst, driver,
                   callbacks, command, thrown, commands>>

\* executeStatement and the statement's own method: one before() call per step; the
\* statement takes effect after its last call, whether or not a call paused
ExecuteStatement ==
    /\ pc = "stmt"
    /\ LET stmt == CurrentLine
           sites == CallSites(stmt)
           ctx == NodeContext(stmt.line, sites[site].column, nodeDepth + sites[site].depth)
           d == before(Dbg, ctx)
       IN /\ Returns("before", ctx, d)
          /\ IF site < Len(sites)
             THEN /\ site' = site + 1
                  /\ UNCHANGED <<pc, nodeDepth, locals, executed>>
             ELSE IF stmt.malformed
             THEN /\ pc' = "throw"
                  /\ UNCHANGED <<site, nodeDepth, locals, executed>>
             ELSE /\ pc' = "loop"
                  /\ nodeDepth' = nodeDepth - 1
                  /\ locals' = IF stmt.type = "ASSIGNMENT_STATEMENT"
                               THEN [locals EXCEPT !["X"] = Num(5)] ELSE locals
                  /\ executed' = Append(executed, stmt.line)
                  /\ UNCHANGED site
    /\ UNCHANGED <<isExecuting, currentLineIndex, currentAst, driver, callbacks, command,
                   thrown, commands>>

\* the catch of executeLine: onException rethrows, so executeLine and the driver method
\* are left without their clean-up
OnException ==
    /\ pc = "throw"
    /\ LET ctx == NodeContext(CurrentLine.line, 4, nodeDepth + ThrowDepth)
       IN Returns("onException", ctx, onException(Dbg, ctx))
    /\ nodeDepth' = nodeDepth + ThrowDepth
    /\ thrown' = TRUE
    /\ pc' = "idle"
    /\ UNCHANGED <<isExecuting, currentLineIndex, locals, site, executed, currentAst,
                   driver, callbacks, command, commands>>

\* the loop of run() and resume() after executeLine: return when paused, else the next
\* line, else completion
RunLoop ==
    /\ pc = "loop" /\ driver \in {"run", "resume"}
    /\ Returns(driver, "loop", Dbg)
    /\ IF isPaused(Dbg)
       THEN /\ pc' = "idle"
            /\ UNCHANGED <<isExecuting, currentLineIndex, currentAst>>
       ELSE IF currentLineIndex + 1 < Len(body)
       THEN /\ pc' = "line"
            /\ currentLineIndex' = currentLineIndex + 1
            /\ UNCHANGED <<isExecuting, currentAst>>
       ELSE /\ pc' = "idle"
            /\ isExecuting' = FALSE
            /\ currentAst' = 0
            /\ currentLineIndex' = 0
    /\ UNCHANGED <<nodeDepth, locals, site, executed, driver, callbacks, command, thrown,
                   commands>>

StepReturn_KeepsCursor ==
    /\ pc = "loop" /\ driver = "step"
    /\ Returns("step", "return", setStepMode(Dbg))
    /\ pc' = "idle"
    /\ currentLineIndex' = currentLineIndex + 1
    /\ IF currentLineIndex + 1 >= Len(body)
       THEN isExecuting' = FALSE /\ currentAst' = 0
       ELSE UNCHANGED <<isExecuting, currentAst>>
    /\ UNCHANGED <<nodeDepth, locals, site, executed, driver, callbacks, command, thrown,
                   commands>>

\* step() after executeLine: advance the cursor, setStepMode, completion check
StepReturn ==
    /\ pc = "loop" /\ driver = "step"
    /\ Returns("step", "return", setStepMode(Dbg))
    /\ pc' = "idle"
    /\ IF currentLineIndex + 1 >= Len(body)
       THEN isExecuting' = FALSE /\ currentAst' = 0 /\ currentLineIndex' = 0
       ELSE currentLineIndex' = currentLineIndex + 1 /\ UNCHANGED <<isExecuting, currentAst>>
    /\ UNCHANGED <<nodeDepth, locals, site, executed, driver, callbacks, command, thrown,
                   commands>>

\* every UI command counts towards the session's bound; a breakpoint edit leaves the
\* driver alone
UiReturn ==
    /\ commands' = commands + 1
    /\ UNCHANGED <<isExecuting, currentLineIndex, nodeDepth, locals, pc, site, executed,
                   currentAst, driver, callbacks, command, thrown>>

\* Debugger.continue and Debugger.step end by calling their callback when it is set,
\* whatever the state machine answered
CallbackCalled(name, d) ==
    /\ commands' = commands + 1
    /\ command' = [name |-> name, accepted |-> d.ret, cursor |-> currentLineIndex]
    /\ pc' = IF callbacks THEN "callback" ELSE "idle"
    /\ UNCHANGED <<isExecuting, currentLineIndex, nodeDepth, locals, site, executed,
                   currentAst, driver, callbacks, thrown>>

\* the UI's Continue button: Debugger.continue
DebuggerContinue ==
    /\ pc = "idle" /\ commands < MaxCommands
    /\ Returns("continue", Null, continue(Dbg))
    /\ CallbackCalled("continue", continue(Dbg))

\* the UI's Step button: Debugger.step
DebuggerStep ==
    /\ pc = "idle" /\ commands < MaxCommands
    /\ Returns("step", "ui", step(Dbg))
    /\ CallbackCalled("step", step(Dbg))

\* the application sets both callbacks to a function that calls interpreter(ast, dbg);
\* it does so when it starts, before it takes any command
SetCallbacks ==
    /\ pc = "idle" /\ ~callbacks /\ commands = 0
    /\ callbacks' = TRUE
    /\ Returns("setCallbacks", Null, Dbg)
    /\ UNCHANGED <<isExecuting, currentLineIndex, nodeDepth, locals, pc, site, executed,
                   currentAst, driver, command, thrown, commands>>

\* the locations breakpoints are put on: the start of a line's node (where the editor's
\* gutter puts them) and the start of the statement node inside it.  A line is named by
\* its BASIC line number, which stands for the file line of the spans (10 for line 1)
Lines == {10, 20, 30}
GutterLocation(line) == [line |-> line, column |-> 1]
BreakpointLocations == [line : Lines, column : {1, 4}]
DefaultOptions == [enabled |-> TRUE, condition |-> NullObject, logMessage |-> Null]

AddBreakpoint ==
    /\ pc = "idle" /\ commands < MaxCommands
    /\ nextId <= MaxBreakpoints
    /\ \E location \in BreakpointLocations :
          Returns("addBreakpoint", location,
                  addBreakpoint(Dbg, location, DefaultOptions))
    /\ UiReturn

RemoveBreakpoint ==
    /\ pc = "idle" /\ commands < MaxCommands
    /\ \E location \in BreakpointLocations :
          /\ findBreakpointAt(Dbg, location) # 0
          /\ Returns("removeBreakpoint", location, removeBreakpointAt(Dbg, location))
    /\ UiReturn

ToggleBreakpoint ==
    /\ pc = "idle" /\ commands < MaxCommands
    /\ \E location \in BreakpointLocations :
          LET existing == findBreakpointAt(Dbg, location)
          IN /\ existing # 0
             /\ Returns("toggleBreakpoint", location,
                        toggleBreakpoint(Dbg, breakpoints[existing].id))
    /\ UiReturn

Next ==
    \/ InterpreterRun
    \/ InterpreterResume
    \/ InterpreterStep
    \/ ExecuteLine
    \/ ExecuteStatement
    \/ OnException
    \/ RunLoop
    \/ StepReturn
    \/ DebuggerContinue
    \/ DebuggerStep
    \/ SetCallbacks
    \/ AddBreakpoint
    \/ RemoveBreakpoint
    \/ ToggleBreakpoint

Spec == Init /\ [][Next]_vars

-----------------------------------------------------------------------------
(* Claims about the state machine, checked under SpecSM *)

SmOps == {"transitionTo", "startExecution", "pauseExecution", "resumeExecution",
          "stepExecution", "handleError", "terminateExecution", "reset"}

C4_InvalidTransitionRejected ==
    [][\A t \in DebuggerState :
          (call'.op = "transitionTo" /\ call'.arg = t
              /\ t \notin STATE_TRANSITIONS(currentState))
          => /\ call'.ret = FALSE
             /\ currentState' = currentState
             /\ pauseReason' = pauseReason
             /\ stateHistory' = stateHistory]_vars

\* C4 witness: transitionTo(Errored) has just been rejected in Paused, a state with a
\* pause reason and a history of several entries
C4_Witness ==
    /\ call.op = "transitionTo" /\ call.arg = "error" /\ call.ret = FALSE
    /\ currentState = "paused"
    /\ pauseReason = "breakpoint"
    /\ Len(stateHistory) >= 3

\* the adjacency table as the specification and DEBUGGER.md give it
SpecifiedAdjacency(s) ==
    CASE s = "idle"       -> {"running", "stepping"}
      [] s = "running"    -> {"paused", "stepping", "error", "terminated", "idle"}
      [] s = "paused"     -> {"running", "stepping", "terminated", "idle"}
      [] s = "stepping"   -> {"paused", "running", "error", "terminated"}
      [] s = "error"      -> {"idle", "terminated"}
      [] s = "terminated" -> {"idle"}

\* C5: for every pair (s, t) of the specified adjacency table, transitionTo(t) called in
\* state s returns true and makes t the current state (Running -> Stepping included).
C5_SpecifiedTransitionsAccepted ==
    [][\A t \in DebuggerState :
          (call'.op = "transitionTo" /\ call'.arg = t
              /\ t \in SpecifiedAdjacency(currentState))
          => (call'.ret = TRUE /\ currentState' = t)]_vars

\* C6: in every state reachable by the public operations of the state machine, the
\* pause reason is non-null if and only if the current state is Paused.
C6_PauseReasonIffPaused == (pauseReason # Null) <=> (currentState = "paused")

\* C7: resumeExecution() called in Paused returns true, sets step mode Run, sets the skip
\* flag and makes the state Running; called in any other state it returns false and leaves
\* state, step mode and skip flag unchanged.
C7_ResumeOnlyFromPaused ==
    [][call'.op = "resumeExecution" =>
          IF currentState = "paused"
          THEN /\ call'.ret = TRUE
               /\ stepMode' = "run"
               /\ skipNextPause'
               /\ currentState' = "running"
          ELSE /\ call'.ret = FALSE
               /\ currentState' = currentState
               /\ stepMode' = stepMode
               /\ skipNextPause' = skipNextPause]_vars

\* C7 witness: resumeExecution has just succeeded from a pause taken in step mode Into
C7_Witness ==
    /\ call.op = "resumeExecution" /\ call.ret = TRUE
    /\ currentState = "running" /\ stepMode = "run" /\ skipNextPause
    /\ stateHistory[Len(stateHistory)] = [from |-> "paused", to |-> "running"]
    /\ stateHistory[Len(stateHistory) - 1] = [from |-> "stepping", to |-> "paused"]

\* C8: stepExecution(mode) called in Paused or Idle returns true, sets the step mode to
\* mode, sets the skip flag and makes the state Stepping; called in any other state it
\* returns false and leaves state, step mode and skip flag unchanged.
C8_StepOnlyFromPausedOrIdle ==
    [][\A m \in StepMode :
          (call'.op = "stepExecution" /\ call'.arg = m) =>
              IF currentState \in {"paused", "idle"}
              THEN /\ call'.ret = TRUE
                   /\ stepMode' = m
                   /\ skipNextPause'
                   /\ currentState' = "stepping"
              ELSE /\ call'.ret = FALSE
                   /\ currentState' = currentState
                   /\ stepMode' = stepMode
                   /\ skipNextPause' = skipNextPause]_vars

\* C8 witness: stepExecution(Over) has just succeeded from Paused
C8_Witness ==
    /\ call.op = "stepExecution" /\ call.arg = "over" /\ call.ret = TRUE
    /\ currentState = "stepping" /\ stepMode = "over" /\ skipNextPause
    /\ stateHistory[Len(stateHistory)] = [from |-> "paused", to |-> "stepping"]

-----------------------------------------------------------------------------
(* Claims about before(), checked under SpecApi *)

\* the location of the node of a before() call
LocationOf(ctx) == [line |-> ctx.span.line, column |-> ctx.span.column]

\* the breakpoint the registry finds at the node of ctx: its index, or 0
BreakpointAtNode(ctx) ==
    IF ctx.span = NullObject THEN 0 ELSE findBreakpointAt(Dbg, LocationOf(ctx))

\* the breakpoint-hit events among the events of the last call
BreakpointHitEvents(events) == {i \in 1..Len(events) : events[i].type = "breakpointHit"}

\* the step and breakpoint rules of before(), for the cases that do not depend on a
\* breakpoint's condition
NormalRules(ctx) ==
    LET i == BreakpointAtNode(ctx)
    IN /\ currentState = "stepping" =>
             currentState' = "paused" /\ pauseReason' = "step"
       /\ (currentState = "running" /\ i # 0 /\ breakpoints[i].enabled
               /\ breakpoints[i].condition = NullObject) =>
             /\ currentState' = "paused" /\ pauseReason' = "breakpoint"
             /\ breakpoints'[i].hitCount = breakpoints[i].hitCount + 1
       /\ (currentState # "stepping" /\ (i = 0 \/ ~breakpoints[i].enabled)) =>
             /\ currentState' = currentState /\ pauseReason' = pauseReason
             /\ breakpoints' = breakpoints

\* C2: a before() call made while the skip-next-pause flag is set does not pause,
\* whatever the state, the step mode and the breakpoints at the node are (state, pause
\* reason, history and hit counts unchanged, no event emitted), and clears the flag; a
\* before() call that directly follows a before() call finds the flag clear and applies
\* the step and breakpoint rules.
C2_SkipFlagSkipsOneBefore ==
    [][/\ (call'.op = "before" /\ skipNextPause) =>
             /\ ~skipNextPause'
             /\ currentState' = currentState
             /\ stepMode' = stepMode
             /\ pauseReason' = pauseReason
             /\ stateHistory' = stateHistory
             /\ breakpoints' = breakpoints
             /\ emitted' = <<>>
       /\ (call'.op = "before" /\ call.op = "before") =>
             /\ ~skipNextPause
             /\ NormalRules(call'.arg)]_vars

\* C2 witness: before() has just returned in Stepping, at a node carrying an enabled
\* unconditional breakpoint that has never been hit: only a set flag makes before()
\* return in Stepping without pausing
C2_Witness ==
    /\ call.op = "before"
    /\ currentState = "stepping" /\ ~skipNextPause
    /\ LET i == BreakpointAtNode(call.arg)
       IN i # 0 /\ breakpoints[i].enabled /\ breakpoints[i].condition = NullObject
              /\ breakpoints[i].hitCount = 0

\* C9: before() called with the flag clear in Stepping leaves the state Paused with pause
\* reason Step; the registry is not queried: no hit count changes and no breakpoint-hit
\* event is emitted, also when the node carries an enabled breakpoint.
C9_SteppingPausesWithStep ==
    [][(call'.op = "before" /\ ~skipNextPause /\ currentState = "stepping") =>
          /\ currentState' = "paused"
          /\ pauseReason' = "step"
          /\ breakpoints' = breakpoints
          /\ BreakpointHitEvents(emitted') = {}]_vars

\* C9 witness: before() has just paused from Stepping at a node carrying an enabled
\* unconditional breakpoint, whose hit count is still 0
C9_Witness ==
    /\ call.op = "before"
    /\ currentState = "paused" /\ pauseReason = "step"
    /\ stateHistory[Len(stateHistory)] = [from |-> "stepping", to |-> "paused"]
    /\ \E e \in 1..Len(emitted) : emitted[e].type = "paused"
    /\ LET i == BreakpointAtNode(call.arg)
       IN i # 0 /\ breakpoints[i].enabled /\ breakpoints[i].condition = NullObject
              /\ breakpoints[i].hitCount = 0

\* C10: before() called with the flag clear, the state not Stepping and a node with a
\* source location queries the registry at that location; when the registry reports a
\* hit the state is Paused with pause reason Breakpoint afterwards and exactly one
\* breakpoint-hit event, carrying the incremented hit count, is emitted; when it reports
\* no hit the state is unchanged.
C10_BreakpointHitPauses ==
    [][(call'.op = "before" /\ ~skipNextPause /\ currentState # "stepping"
            /\ call'.arg.span # NullObject) =>
          LET location == LocationOf(call'.arg)
              r == shouldPauseAt(Dbg, location,
                                 [location |-> location, locals |-> call'.arg.locals])
          IN IF r.ret # 0
             THEN /\ currentState' = "paused"
                  /\ pauseReason' = "breakpoint"
                  /\ Cardinality(BreakpointHitEvents(emitted')) = 1
                  /\ \A e \in BreakpointHitEvents(emitted') :
                        emitted'[e].hitCount = breakpoints[r.ret].hitCount + 1
                  /\ breakpoints'[r.ret].hitCount = breakpoints[r.ret].hitCount + 1
             ELSE currentState' = currentState]_vars

-----------------------------------------------------------------------------
(* Claims about the driver, checked under Spec *)

\* the driver stands paused by a breakpoint on the line at the cursor (body[i])
PausedAtLineBreakpoint ==
    /\ pc = "idle" /\ isExecuting /\ ~thrown
    /\ currentState = "paused" /\ pauseReason = "breakpoint"
    /\ currentContext # NullObject
    /\ currentContext.span = GutterLocation(CurrentLine.line)

\* C1: after the driver has paused with reason Breakpoint at a breakpoint on statement i,
\* continue() leaves the state Running with the skip flag set; the first before() of the
\* resumed loop (for statement i) does not pause and does not query the registry (no hit
\* count changes, no event); statement i is entered and, once its before() calls are
\* done, executed; the loop then goes from statement to statement and returns only when
\* a before() call has paused on an enabled breakpoint (reason Breakpoint, hit count
\* incremented), at the end of the program, or when a statement throws.
C1_ContinuePassesTheBreakpoint ==
    [][/\ (call'.op = "continue" /\ PausedAtLineBreakpoint) =>
             /\ currentState' = "running"
             /\ skipNextPause'
             /\ breakpoints' = breakpoints
       /\ (call.op = "resume" /\ call'.op = "before" /\ pc = "line"
               /\ currentState = "running" /\ skipNextPause) =>
             /\ currentState' = "running"
             /\ ~skipNextPause'
             /\ breakpoints' = breakpoints
             /\ emitted' = <<>>
             /\ pc' = "stmt"
       /\ (driver = "resume" /\ pc = "stmt" /\ pc' # "stmt") =>
             \/ pc' = "loop" /\ executed' = Append(executed, CurrentLine.line)
             \/ pc' = "throw" /\ CurrentLine.malformed
       /\ (driver = "resume" /\ call'.op = "before" /\ currentState' # currentState) =>
             LET i == BreakpointAtNode(call'.arg)
             IN /\ currentState = "running"
                /\ currentState' = "paused" /\ pauseReason' = "breakpoint"
                /\ i # 0 /\ breakpoints[i].enabled
                /\ breakpoints'[i].hitCount = breakpoints[i].hitCount + 1
       /\ (driver = "resume" /\ pc = "loop") =>
             \/ currentState = "paused" /\ pc' = "idle" /\ isExecuting'
                   /\ currentLineIndex' = currentLineIndex
             \/ currentState # "paused" /\ pc' = "line"
                   /\ currentLineIndex' = currentLineIndex + 1
             \/ currentState # "paused" /\ pc' = "idle" /\ ~isExecuting'
                   /\ currentLineIndex + 1 = Len(body)]_vars

\* C1 witness: a run of the three-line program paused at the breakpoint on its second
\* line, and the resumed loop has executed that line and the third one and reached the
\* end of the program, with the breakpoint's hit count still 1
C1_Witness ==
    /\ pc = "idle" /\ driver = "resume" /\ ~isExecuting /\ ~thrown
    /\ executed = <<10, 20, 30>>
    /\ currentState = "running" /\ ~skipNextPause
    /\ LET i == findBreakpointAt(Dbg, GutterLocation(20))
       IN i # 0 /\ breakpoints[i].enabled /\ breakpoints[i].hitCount = 1
    /\ stateHistory[Len(stateHistory)] = [from |-> "paused", to |-> "running"]

-----------------------------------------------------------------------------
(* Further claims about before() and the registry, checked under SpecApi *)

\* C11 (as stated): a before() call for a node without a span never pauses, in any state.
C11_SpanlessNodeNeverPauses ==
    [][(call'.op = "before" /\ call'.arg.span = NullObject) =>
          ~(currentState # "paused" /\ currentState' = "paused")]_vars

\* C11 (amended): a before() call for a node without a span never queries the registry
\* and never takes a breakpoint pause, in any state; it pauses only as a step pause, when
\* the state is Stepping and the skip flag is clear, and then always; otherwise it leaves
\* the state and the pause reason unchanged.
C11_SpanlessNodePausesOnlyAsStep ==
    [][(call'.op = "before" /\ call'.arg.span = NullObject) =>
          /\ breakpoints' = breakpoints
          /\ BreakpointHitEvents(emitted') = {}
          /\ IF currentState = "stepping" /\ ~skipNextPause
             THEN currentState' = "paused" /\ pauseReason' = "step"
             ELSE currentState' = currentState /\ pauseReason' = pauseReason]_vars

\* C11 witness: before() has just returned for a node without a span, in Running, with
\* an enabled unconditional breakpoint in the registry, and nothing paused or was counted
C11_Witness ==
    /\ call.op = "before" /\ call.arg.span = NullObject
    /\ currentState = "running" /\ ~skipNextPause
    /\ Len(breakpoints) > 0
    /\ \A i \in 1..Len(breakpoints) :
          breakpoints[i].enabled /\ breakpoints[i].condition = NullObject
              /\ breakpoints[i].hitCount = 0

-----------------------------------------------------------------------------
(* Further claims about the state machine, checked under SpecSM *)

\* C18: in Errored, startExecution, pauseExecution, resumeExecution, stepExecution,
\* handleError and before() leave the state Errored; reset() leads to Idle and
\* terminateExecution() to Terminated; Errored is left for no other state.
C18_ErroredIsTerminal ==
    [][currentState = "error" =>
          /\ call'.op \in {"startExecution", "pauseExecution", "resumeExecution",
                           "stepExecution", "handleError", "before"} =>
                currentState' = "error" /\ call'.ret = FALSE
          /\ call'.op = "reset" => currentState' = "idle" /\ call'.ret = TRUE
          /\ call'.op = "terminateExecution" =>
                currentState' = "terminated" /\ call'.ret = TRUE
          /\ currentState' \in {"error", "idle", "terminated"}]_vars

\* C18 witness: stepExecution has just been refused in Errored, reached from Stepping
C18_Witness ==
    /\ call.op = "stepExecution" /\ call.ret = FALSE
    /\ currentState = "error"
    /\ stateHistory[Len(stateHistory)] = [from |-> "stepping", to |-> "error"]

\* C19: reset() called in any state leaves the state machine in Idle, with the pause
\* reason, the execution context and the skip flag cleared and step mode Run.
C19_ResetLeadsToIdle ==
    [][call'.op = "reset" =>
          /\ currentState' = "idle"
          /\ pauseReason' = Null
          /\ executionContext' = NullObject
          /\ ~skipNextPause'
          /\ stepMode' = "run"]_vars

-----------------------------------------------------------------------------
(* Further claims about the driver, checked under Spec *)

\* an invocation of Interpreter.step() is in flight
InStep == driver = "step" /\ pc \in {"line", "stmt", "loop"}

StepCallReturns == pc = "loop" /\ driver = "step" /\ nextId = 1 /\ currentAst = 1
StepCallNumber == currentLineIndex + 1

\* C13 as stated: with no breakpoints and a program of 3 statements, after N calls of
\* step() the cursor equals min(N, 3), and the result of the 3rd call indicates that
\* execution is complete
C13_CursorIsMinOfCallsAndLength ==
    [][StepCallReturns =>
          /\ currentLineIndex' = IF StepCallNumber < 3 THEN StepCallNumber ELSE 3
          /\ StepCallNumber = 3 => ~isExecuting']_vars

\* C13 amended: with no breakpoints and a program of 3 statements, after N < 3 calls of
\* step() the cursor equals N, the first N statements have been executed and the
\* execution is still in flight; the 3rd call executes the last statement and its result
\* indicates completion: the execution is over and the cursor is back at 0
C13_CursorCountsCallsUntilCompletion ==
    [][StepCallReturns =>
          /\ executed' = SubSeq(<<10, 20, 30>>, 1, StepCallNumber)
          /\ IF StepCallNumber < 3
             THEN currentLineIndex' = StepCallNumber /\ isExecuting'
             ELSE currentLineIndex' = 0 /\ ~isExecuting' /\ currentAst' = 0]_vars

C13_Witness ==
    /\ call.op = "step" /\ call.arg = "return"
    /\ pc = "idle" /\ driver = "step" /\ nextId = 1
    /\ executed = <<10, 20, 30>>
    /\ ~isExecuting /\ currentLineIndex = 0

\* C14: in every driver entry point (run, resume, step) the cursor is advanced from i to
\* i + 1 only after statement i has been executed completely and no before() call made
\* since the driver reached statement i has paused execution (within an invocation
\* nothing leaves Paused before the driver's own clean-up, so a pause by one of those
\* calls is still the state when the cursor is advanced)
C14_CursorAdvancesOnlyUnsuspended ==
    [][currentLineIndex' = currentLineIndex + 1 =>
          /\ pc = "loop"
          /\ executed # <<>> /\ executed[Len(executed)] = CurrentLine.line
          /\ ~isPaused(Dbg)]_vars

\* the last UI command was a continue() or a step() that the state machine rejected; it
\* stays the last command while the driver invocation made by its callback is in flight
RejectedCommand(c) == c.name \in {"continue", "step"} /\ ~c.accepted

\* C15: a continue() or step() command issued while the state machine rejects the
\* transition is a no-op: neither the command nor anything done as a consequence of it
\* changes the state, the skip flag or the cursor, or executes a statement
C15_RejectedCommandIsNoOp ==
    [][RejectedCommand(command') =>
          UNCHANGED <<currentState, skipNextPause, currentLineIndex, executed>>]_vars

\* C16: whenever a statement's execution throws and the interpreter reports it through
\* onException, the state machine is left in Errored with no pause reason, whether it
\* was Running, Stepping, or Paused by a before() call inside that statement when the
\* exception was raised
C16_ExceptionLeavesErrored ==
    [][(call'.op = "onException" /\ currentState \in {"running", "stepping", "paused"}) =>
          currentState' = "error" /\ pauseReason' = Null]_vars

\* C17: for each exception raised inside statement execution, onException emits exactly
\* one exception event, which carries the location of the node it was given, then calls
\* before() again on the same context (which consumes the skip flag or looks the node up
\* in the registry: a breakpoint reached there has its hit counted and announced after
\* the exception event), and finally rethrows: the driver invocation ends there, by the
\* throw, without its clean-up
C17_ExceptionReportedOnceAndRethrown ==
    [][call'.op = "onException" =>
          LET ctx == call'.arg
              i == BreakpointAtNode(ctx)
          IN /\ {e \in 1..Len(emitted') : emitted'[e].type = "exception"} = {1}
             /\ emitted'[1].location = LocationOf(ctx)
             /\ LocationOf(ctx) = [line |-> CurrentLine.line, column |-> 4]
             /\ ~skipNextPause'
             /\ IF ~skipNextPause /\ i # 0 /\ breakpoints[i].enabled
                THEN /\ breakpoints' = [breakpoints EXCEPT ![i].hitCount = @ + 1]
                     /\ BreakpointHitEvents(emitted') # {}
                     /\ \A e \in BreakpointHitEvents(emitted') : e > 1
                ELSE /\ breakpoints' = breakpoints
                     /\ BreakpointHitEvents(emitted') = {}
             /\ thrown' /\ pc' = "idle"
             /\ UNCHANGED <<currentLineIndex, isExecuting, executed>>]_vars

\* C17 witness: onException has reported the exception of the malformed statement, the
\* before() it made reached a breakpoint on the statement, and the invocation has ended
\* by the throw
C17_Witness ==
    /\ call.op = "onException"
    /\ thrown /\ pc = "idle" /\ isExecuting
    /\ emitted[1].type = "exception"
    /\ BreakpointHitEvents(emitted) # {}
    /\ currentState = "error"

-----------------------------------------------------------------------------
(* SpecBM: the public operations of the breakpoint registry, called in any order *)

\* the location breakpoints are put on (more than one may be put there), and the
\* locations shouldPauseAt is asked about
BmLocation == [line |-> 10, column |-> 1]
BmLocations == {BmLocation, [line |-> 10, column |-> 4]}
\* the conditions breakpoints are given: none, a hit-count target, a hit-count target
\* that is not a number, an expression over a local, and an expression condition whose
\* expression string is missing
BmConditions == {NullObject,
                 [type |-> "hitCount", expression |-> "2"],
                 [type |-> "hitCount", expression |-> "abc"],
                 [type |-> "expression", expression |-> "X=5"],
                 [type |-> "expression", expression |-> UndefinedString]}
BmOptions == [enabled : {TRUE}, condition : BmConditions, logMessage : {Null}]
\* the context shouldPauseAt is given: the coordinator passes the location along, a
\* direct caller may leave it out
BmContexts(location) ==
    [location : {location, NullObject}, locals : {[x \in {"X"} |-> Num(5)]}]

BmBounded == \A i \in 1..Len(breakpoints) : breakpoints[i].hitCount < MaxHits

BmAddBreakpoint ==
    /\ nextId <= MaxRegistry
    /\ \E o \in BmOptions :
          Returns("addBreakpoint", BmLocation, addBreakpoint(Dbg, BmLocation, o))
    /\ UNCHANGED interpVars

BmRemoveBreakpoint ==
    /\ \E i \in 1..Len(breakpoints) :
          Returns("removeBreakpoint", breakpoints[i].id,
                  removeBreakpoint(Dbg, breakpoints[i].id))
    /\ UNCHANGED interpVars

BmToggleBreakpoint ==
    /\ \E i \in 1..Len(breakpoints) :
          Returns("toggleBreakpoint", breakpoints[i].id,
                  toggleBreakpoint(Dbg, breakpoints[i].id))
    /\ UNCHANGED interpVars

\* setBreakpointCondition(id, undefined): the condition is taken off
BmSetBreakpointCondition ==
    /\ \E i \in 1..Len(breakpoints) :
          /\ breakpoints[i].condition # NullObject
          /\ Returns("setBreakpointCondition", breakpoints[i].id,
                     setBreakpointCondition(Dbg, breakpoints[i].id, NullObject))
    /\ UNCHANGED interpVars

BmClearAll ==
    /\ breakpoints # <<>>
    /\ Returns("clearAll", Null, clearAll(Dbg))
    /\ UNCHANGED interpVars

BmShouldPauseAt ==
    /\ BmBounded
    /\ \E location \in BmLocations :
          \E context \in BmContexts(location) :
             Returns("shouldPauseAt", [location |-> location, context |-> context],
                     shouldPauseAt(Dbg, location, context))
    /\ UNCHANGED interpVars

\* the entries of the arrays handed to importBreakpoints: two well-formed ones and the
\* three ways an entry is refused
BmEntries ==
    {[kind |-> "ok", location |-> BmLocation, enabled |-> "false",
      condition |-> JsonAbsent, logMessage |-> "note"],
     [kind |-> "ok", location |-> [line |-> 10, column |-> 4], enabled |-> JsonAbsentString,
      condition |-> [type |-> "hitCount", expression |-> "2"],
      logMessage |-> JsonAbsentString],
     [kind |-> "null"], [kind |-> "noLocation"], [kind |-> "lineNotNumber"]}
BmPayloads ==
    {[kind |-> k, entries |-> <<>>] : k \in {"unparseable", "null", "noKey", "notArray"}}
        \cup {[kind |-> "array", entries |-> e] :
                  e \in {<<>>} \cup {<<x>> : x \in BmEntries}
                          \cup {<<x, y>> : x \in BmEntries, y \in BmEntries}}

BmImportBreakpoints ==
    /\ \E jsonData \in BmPayloads :
          /\ nextId + Cardinality({k \in 1..Len(jsonData.entries) :
                                      jsonData.entries[k].kind = "ok"}) <= MaxRegistry + 1
          /\ Returns("importBreakpoints", jsonData, importBreakpoints(Dbg, jsonData))
    /\ UNCHANGED interpVars

\* new BreakpointManager().importBreakpoints(this.exportBreakpoints()): the registry is
\* exported and the text imported into an empty registry; the call returns the import's
\* result and the breakpoints of that registry
BmExportImport ==
    /\ breakpoints # <<>>
    /\ LET jsonData == exportBreakpoints(Dbg)
           r == importBreakpoints([Dbg EXCEPT !.breakpoints = <<>>, !.nextId = 1], jsonData)
       IN /\ Commit(Dbg)
          /\ call' = [op |-> "exportImport", arg |-> jsonData,
                      ret |-> [result |-> r.ret, breakpoints |-> r.breakpoints]]
    /\ UNCHANGED interpVars

\* a registry that is filled by imports only, reached, emptied, exported and imported
NextIO ==
    \/ BmImportBreakpoints
    \/ BmExportImport
    \/ BmShouldPauseAt
    \/ BmRemoveBreakpoint
    \/ BmClearAll

SpecIO == Init /\ [][NextIO]_vars

NextBM ==
    \/ BmAddBreakpoint
    \/ BmRemoveBreakpoint
    \/ BmToggleBreakpoint
    \/ BmSetBreakpointCondition
    \/ BmClearAll
    \/ BmShouldPauseAt

SpecBM == Init /\ [][NextBM]_vars

-----------------------------------------------------------------------------
(* Claims about the registry, checked under SpecBM; those about export and import under SpecIO *)

\* the ids of the breakpoints of a registry, and the breakpoint with an id
IdsOf(bps) == {bps[i].id : i \in 1..Len(bps)}
WithId(bps, id) == bps[CHOOSE i \in 1..Len(bps) : bps[i].id = id]

\* the breakpoints the registry holds at a location
BreakpointsAt(location) ==
    {i \in 1..Len(breakpoints) : locationsMatch(breakpoints[i].location, location)}

C22_ExactLocationLookup ==
    [][call'.op = "shouldPauseAt" =>
          LET at == BreakpointsAt(call'.arg.location)
          IN /\ (\E i \in at : breakpoints[i].enabled
                                 /\ breakpoints[i].condition = NullObject) =>
                   call'.ret # 0
             /\ (\A i \in at : ~breakpoints[i].enabled) =>
                   call'.ret = 0 /\ breakpoints' = breakpoints]_vars

\* the evaluation of a condition fails: the evaluator raises an error (an expression
\* condition without an expression string, a hit-count condition evaluated with a
\* context that carries no location) or the condition cannot be evaluated (a hit-count
\* target that is not a number)
EvaluationFails(condition, context) ==
    \/ condition.type = "expression" /\ condition.expression = UndefinedString
    \/ condition.type = "hitCount" /\ context.location = NullObject
    \/ condition.type = "hitCount" /\ parseInt(condition.expression) = NaN

\* C23: when evaluating the condition of an enabled breakpoint fails, shouldPauseAt
\* returns a hit: a broken condition never results in 'do not pause'
C23_BrokenConditionPauses ==
    [][call'.op = "shouldPauseAt" =>
          LET i == findBreakpointAt(Dbg, call'.arg.location)
          IN (/\ i # 0
              /\ breakpoints[i].enabled
              /\ breakpoints[i].condition # NullObject
              /\ EvaluationFails(breakpoints[i].condition, call'.arg.context)) =>
                call'.ret = i]_vars

\* what export and import are to preserve of a breakpoint
TupleOf(bp) == [location |-> bp.location, enabled |-> bp.enabled,
                condition |-> bp.condition, logMessage |-> bp.logMessage]
TuplesOf(bps) == [i \in 1..Len(bps) |-> TupleOf(bps[i])]

\* C24: importing the export of a registry into an empty registry yields a registry
\* whose (location, enabled, condition, logMessage) tuples are those of the exported
\* one, in the same order; every breakpoint is imported and no error is reported
C24_ExportImportRoundTrip ==
    [][call'.op = "exportImport" =>
          /\ TuplesOf(call'.ret.breakpoints) = TuplesOf(breakpoints)
          /\ call'.ret.result = [success |-> TRUE, imported |-> Len(breakpoints),
                                 errors |-> <<>>]]_vars

\* C24 witness: a registry with a disabled breakpoint that has a log message and a
\* conditioned breakpoint that has been reached is exported and imported; the copy of
\* the reached breakpoint starts with no hit
C24_Witness ==
    /\ call.op = "exportImport"
    /\ Len(breakpoints) = 2
    /\ \E i \in 1..2 : ~breakpoints[i].enabled /\ breakpoints[i].logMessage = "note"
    /\ \E i \in 1..2 : /\ breakpoints[i].condition # NullObject
                        /\ breakpoints[i].hitCount = 1
                        /\ call.ret.breakpoints[i].hitCount = 0

\* the array entries that importBreakpoints accepts
OkEntries(entries) == {k \in 1..Len(entries) : entries[k].kind = "ok"}

\* C25: importBreakpoints on a text that cannot be parsed, or whose breakpoints key is
\* missing or not an array, returns success = false, imported = 0 and a non-empty list
\* of errors, and leaves the registry exactly as it was
C25_MalformedImportRejected ==
    [][(call'.op = "importBreakpoints" /\ call'.arg.kind # "array") =>
          /\ ~call'.ret.success
          /\ call'.ret.imported = 0
          /\ call'.ret.errors # <<>>
          /\ breakpoints' = breakpoints /\ nextId' = nextId]_vars

C25_Witness ==
    /\ call.op = "importBreakpoints"
    /\ call.arg.kind = "notArray"
    /\ ~call.ret.success /\ call.ret.imported = 0
    /\ Len(breakpoints) = 2

\* C26: importBreakpoints on a text with a breakpoints array imports every well-formed
\* entry, in order, also when other entries are malformed: each malformed entry adds
\* one error and no breakpoint, imported is the number of breakpoints added, the
\* breakpoints present before are unchanged, and success is true exactly when no
\* entry failed
C26_ImportEntryByEntry ==
    [][(call'.op = "importBreakpoints" /\ call'.arg.kind = "array") =>
          LET entries == call'.arg.entries
              ok == OkEntries(entries)
              added == SubSeq(breakpoints', Len(breakpoints) + 1, Len(breakpoints'))
          IN /\ Len(breakpoints') = Len(breakpoints) + Cardinality(ok)
             /\ SubSeq(breakpoints', 1, Len(breakpoints)) = breakpoints
             /\ call'.ret.imported = Cardinality(ok)
             /\ Len(call'.ret.errors) = Len(entries) - Cardinality(ok)
             /\ call'.ret.success <=> (Cardinality(ok) = Len(entries))
             /\ \A k \in ok :
                   LET n == Cardinality({j \in ok : j <= k})
                   IN TupleOf(added[n]) =
                         [location |-> entries[k].location] @@ importedOptions(entries[k])]_vars

\* C26 witness: an array whose first entry is null and whose second is well-formed has
\* been imported into a registry that held a breakpoint
C26_Witness ==
    /\ call.op = "importBreakpoints"
    /\ call.arg.kind = "array" /\ Len(call.arg.entries) = 2
    /\ call.arg.entries[1].kind = "null" /\ call.arg.entries[2].kind = "ok"
    /\ call.ret.imported = 1 /\ ~call.ret.success /\ Len(call.ret.errors) = 1
    /\ Len(breakpoints) = 2 /\ breakpoints[1].hitCount = 1

-----------------------------------------------------------------------------
(* SpecEv: the event emitter, called directly *)

\* the listeners that subscribe and the event types they subscribe to
EvListeners == {"returns", "throws", "once"}
EvTypes == {"paused", "resumed"}

EvOn ==
    /\ getListenerCount(Dbg) < MaxListeners
    /\ \E eventType \in EvTypes, listener \in EvListeners :
          Returns("on", eventType, on(Dbg, eventType, listener))
    /\ UNCHANGED interpVars

EvOnAll ==
    /\ getListenerCount(Dbg) < MaxListeners
    /\ \E listener \in EvListeners : Returns("onAll", listener, onAll(Dbg, listener))
    /\ UNCHANGED interpVars

EvOff ==
    /\ \E eventType \in EvTypes, listener \in EvListeners :
          Returns("off", eventType, off(Dbg, eventType, listener))
    /\ UNCHANGED interpVars

EvOffAll ==
    /\ \E listener \in EvListeners : Returns("offAll", listener, offAll(Dbg, listener))
    /\ UNCHANGED interpVars

EvRemoveAllListeners ==
    /\ Returns("removeAllListeners", Null, removeAllListeners(Dbg))
    /\ UNCHANGED interpVars

\* emit(event) returns nothing; the call is recorded with the listener calls it made
EvEmit ==
    /\ \E eventType \in EvTypes :
          LET d == emit(Dbg, [type |-> eventType])
          IN /\ Commit(d)
             /\ call' = [op |-> "emit", arg |-> eventType, ret |-> d.delivered]
    /\ UNCHANGED interpVars

NextEv ==
    \/ EvOn
    \/ EvOnAll
    \/ EvOff
    \/ EvOffAll
    \/ EvRemoveAllListeners
    \/ EvEmit

SpecEv == Init /\ [][NextEv]_vars

-----------------------------------------------------------------------------
(* Claims about the event emitter, checked under SpecEv *)

\* the registrations of a listener in a list, and the calls of a listener made from the
\* list of a style ("type" or "global") during an emit
Registrations(list, listener) == Cardinality({i \in 1..Len(list) : list[i] = listener})
Invocations(log, listener, style) ==
    Cardinality({i \in 1..Len(log) : log[i].listener = listener /\ log[i].style = style})
\* the listeners subscribed to the event's type and the catch-all listeners, as they
\* were when emit was called, have each been called once per registration, and no
\* other call was made
DeliveredToAllDue ==
    \A listener \in EvListeners :
        /\ Invocations(call'.ret, listener, "type")
               = Registrations(listeners[call'.arg], listener)
        /\ Invocations(call'.ret, listener, "global")
               = Registrations(globalListeners, listener)

\* C27: when a subscriber throws during emit, every other subscriber due for the event,
\* type-specific and catch-all, is still called, and emit returns
C27_ThrowingSubscriberIsolated ==
    [][(call'.op = "emit" /\ \E i \in 1..Len(call'.ret) : call'.ret[i].threw)
          => DeliveredToAllDue]_vars

\* C28: by the time emit returns, every listener subscribed to the event's type and
\* every catch-all listener has been called exactly once per registration, and no
\* listener subscribed only to another type has been called
C28_SynchronousDeliveryToAll ==
    [][call'.op = "emit" => DeliveredToAllDue]_vars

-----------------------------------------------------------------------------
(* SpecHist: a state machine that is started and reset until its history is *)
(* nearly full, and then sent to any state                                  *)

HsStartExecution ==
    /\ recorded < MaxRecorded
    /\ Returns("startExecution", Null, startExecution(Dbg))
    /\ UNCHANGED interpVars

HsReset ==
    /\ recorded < MaxRecorded
    /\ Returns("reset", Null, reset(Dbg))
    /\ UNCHANGED interpVars

HsTransitionTo ==
    /\ recorded < MaxRecorded
    /\ recorded >= maxHistorySize - 2
    /\ \E t \in DebuggerState : Returns("transitionTo", t, transitionTo(Dbg, t))
    /\ UNCHANGED interpVars

NextHist ==
    \/ HsStartExecution
    \/ HsReset
    \/ HsTransitionTo

SpecHist == Init /\ [][NextHist]_vars

-----------------------------------------------------------------------------
(* Claims about the transition history, checked under SpecHist *)

\* the last n elements of a sequence (all of them when it has fewer)
LastOf(seq, n) == SubSeq(seq, IF Len(seq) > n THEN Len(seq) - n + 1 ELSE 1, Len(seq))

-----------------------------------------------------------------------------
(* A further claim about the coordinator, checked under SpecApi *)

\* the positions of the paused events among the events of an operation
PausedEvents(events) == {e \in 1..Len(events) : events[e].type = "paused"}

\* C30: when before() decides to pause (shouldPause answers true), the node, frame and
\* depth it was called with become the current context, the state machine is Paused
\* with the computed reason (Breakpoint after a registry hit, Step otherwise), and
\* exactly one paused event is emitted, with that reason and the location of the
\* node; for a breakpoint pause the breakpoint-hit event comes before the paused event
C30_PauseStoresContextAndAnnounces ==
    [][(call'.op = "before" /\ shouldPause(Dbg, call'.arg).ret) =>
          LET s == shouldPause(Dbg, call'.arg)
              reason == IF s.currentBreakpointHit # 0 THEN "breakpoint" ELSE "step"
          IN /\ currentContext' = ContextOf(call'.arg)
             /\ currentState' = "paused"
             /\ pauseReason' = reason
             /\ Cardinality(PausedEvents(emitted')) = 1
             /\ \A e \in PausedEvents(emitted') :
                   /\ emitted'[e].reason = mapPauseReasonToEventReason(reason)
                   /\ emitted'[e].location = call'.arg.span
                   /\ reason = "breakpoint" =>
                         \E h \in BreakpointHitEvents(emitted') : h < e]_vars

-----------------------------------------------------------------------------
(* Claims about the end of a run and about continue after steps, checked under Spec *)

\* the step in which run() or resume() finds the program finished
DriverCompletes ==
    /\ pc = "loop" /\ driver \in {"run", "resume"}
    /\ isExecuting /\ ~isExecuting'

\* C31: when run() or resume() has executed the last statement and completes without
\* pausing, the state machine is Terminated afterwards, not Running
C31_CompletionTerminates ==
    [][DriverCompletes => currentState' = "terminated"]_vars

\* C32: with an execution in flight that step commands have left in Stepping,
\* continue() moves the state to Running with step mode Run, and the interpreter entry
\* point called next resumes the loop (resume()) instead of executing one statement
\* (step())
C32_ContinueAfterStepsRuns ==
    [][/\ (call'.op = "continue" /\ currentState = "stepping" /\ isExecuting) =>
            (currentState' = "running" /\ stepMode' = "run")
       /\ (pc = "callback" /\ command.name = "continue" /\ isExecuting /\ pc' = "line") =>
            driver' = "resume"]_vars

-----------------------------------------------------------------------------
(* SpecFrame: a frame chain that grows by a branch, shrinks when the branch is *)
(* done, and is read and written through its current frame                    *)

FrameValues == {Num(1), Num(2)}

\* executeIfStatement: a new frame whose parent is the current frame becomes current
FrPush ==
    /\ Len(frames) < MaxFrames
    /\ LET parent == frames[Len(frames)]
       IN Returns("pushFrame", Null,
                  [Dbg EXCEPT !.frames = Append(@, Frame("if-then", parent.callDepth + 1))])
    /\ UNCHANGED interpVars

\* executeIfStatement: this.currentFrame = oldFrame
FrPop ==
    /\ Len(frames) > 1
    /\ Returns("popFrame", Null, [Dbg EXCEPT !.frames = SubSeq(@, 1, Len(@) - 1)])
    /\ UNCHANGED interpVars

FrSet ==
    /\ \E k \in FrameKeys, v \in FrameValues :
          /\ Commit([Dbg EXCEPT !.frames = set(@, k, v)])
          /\ call' = [op |-> "set", arg |-> k, ret |-> v, raised |-> FALSE]
    /\ UNCHANGED interpVars

FrLookup ==
    /\ \E k \in FrameKeys :
          /\ Commit(Dbg)
          /\ call' = [op |-> "lookup", arg |-> k, ret |-> lookup(frames, k).value,
                      raised |-> lookup(frames, k).raised]
    /\ UNCHANGED interpVars

NextFrame ==
    \/ FrPush
    \/ FrPop
    \/ FrSet
    \/ FrLookup

SpecFrame == Init /\ [][NextFrame]_vars

-----------------------------------------------------------------------------
(* Claims about the frame chain, checked under SpecFrame *)

\* the frames of the chain that bind k
Binders(k) == {i \in 1..Len(frames) : frames[i].locals[k] # Unbound}

\* C33: lookup(k) returns the value bound to k in the nearest frame, from the current
\* frame to the root, that binds k, and raises an error when no frame of the chain binds
\* k; set(k, v) binds k to v in the current frame and changes nothing else: no other
\* name of the current frame and no binding of an ancestor frame
C33_LookupNearestSetCurrent ==
    [][/\ call'.op = "lookup" =>
            LET k == call'.arg
            IN /\ frames' = frames
               /\ IF Binders(k) = {} THEN call'.raised
                  ELSE /\ ~call'.raised
                       /\ call'.ret =
                             frames[CHOOSE i \in Binders(k) : \A j \in Binders(k) : j <= i]
                                 .locals[k]
       /\ call'.op = "set" =>
            LET n == Len(frames)
            IN /\ Len(frames') = n
               /\ frames'[n].locals[call'.arg] = call'.ret
               /\ \A k \in FrameKeys \ {call'.arg} :
                     frames'[n].locals[k] = frames[n].locals[k]
               /\ \A i \in 1..(n - 1) : frames'[i] = frames[i]]_vars

-----------------------------------------------------------------------------
(* Claims about the order of execution and about progress, checked under Spec *)

\* the line numbers of a program, in document order
LinesOf(program) == [i \in 1..Len(program) |-> program[i].line]
\* a sequence of line numbers is the beginning of a program, each line once
IsPrefixOf(lines, program) ==
    /\ Len(lines) <= Len(program)
    /\ \A i \in 1..Len(lines) : lines[i] = program[i].line

\* C34: whatever the run, continue and step commands and wherever the breakpoints are,
\* the statements executed by a run are the first statements of the program, each once
\* and in document order, and when the run completes every statement has been executed
C34_EachStatementOnceInOrder ==
    [][/\ isExecuting' => IsPrefixOf(executed', Programs[currentAst'])
       /\ (isExecuting /\ ~isExecuting') => executed' = LinesOf(body)]_vars

\* the step in which run() or resume() returns because the debugger is paused
DriverReturnsPaused ==
    /\ pc = "loop" /\ driver \in {"run", "resume"}
    /\ isPaused(Dbg) /\ pc' = "idle"

\* C35: when the resume() made for an accepted continue() returns with a pause, the
\* cursor is beyond the statement the execution was paused at when continue() was
\* called: no breakpoint makes the execution pause again and again on one statement
C35_ContinueAdvancesPastThePause ==
    [][(DriverReturnsPaused /\ driver = "resume"
            /\ command.name = "continue" /\ command.accepted) =>
          currentLineIndex > command.cursor]_vars

-----------------------------------------------------------------------------
(* SpecRe: the driver with a listener of the "paused" event that calls         *)
(* Debugger.continue at once.  The listener runs inside emit, which runs       *)
(* inside the before() that paused, which the driver invocation awaits: the    *)
(* callback of continue() starts a second invocation while the first has not   *)
(* returned.  Each invocation keeps its loop variable i and its body; the      *)
(* cursor, the node depth, the frame and the debugger are shared.  An          *)
(* invocation runs from one await of the driver's own code to the next in one  *)
(* step; which suspended invocation goes next is left open.                    *)

\* the listener that calls Debugger.continue when it is told of a pause
ContinuesListener == "continues"

\* the programs run under SpecRe: the ones that do not throw
RePrograms == {1, 2}

Quiet == \A k \in 1..Len(loops) : loops[k].pc = "done"

\* the remaining before() calls of a statement, made in order from call site n
RECURSIVE beforeSites(_, _, _, _)
beforeSites(d, stmt, depth, n) ==
    IF n > Len(CallSites(stmt)) THEN d
    ELSE beforeSites(before(d, NodeContext(stmt.line, CallSites(stmt)[n].column,
                                           depth + CallSites(stmt)[n].depth)),
                     stmt, depth, n + 1)

\* the application subscribes the listener before it runs a program
ReSubscribe ==
    /\ Quiet /\ ~isExecuting
    /\ listeners["paused"] = <<>>
    /\ Returns("on", "paused", on(Dbg, "paused", ContinuesListener))
    /\ UNCHANGED interpVars

ReAddBreakpoint ==
    /\ Quiet /\ ~isExecuting
    /\ nextId <= MaxBreakpoints
    /\ \E line \in Lines :
          Returns("addBreakpoint", GutterLocation(line),
                  addBreakpoint(Dbg, GutterLocation(line), DefaultOptions))
    /\ UNCHANGED interpVars

\* the Run command: interpreter(ast, dbg) with no execution in progress, up to the
\* first executeLine of run(ast)
ReRun ==
    /\ Quiet /\ ~isExecuting
    /\ commands < MaxRuns
    /\ \E ast \in RePrograms :
          LET d == startExecution(resetState(Dbg))
          IN /\ Returns("run", ast,
                        [d EXCEPT !.loops = <<[driver |-> "run", ast |-> ast, i |-> 0,
                                               pc |-> "line"]>>])
             /\ currentAst' = ast
    /\ isExecuting' = TRUE
    /\ currentLineIndex' = 0
    /\ nodeDepth' = 0
    /\ locals' = [x \in {"X"} |-> Undefined]
    /\ executed' = <<>>
    /\ commands' = commands + 1
    /\ UNCHANGED <<pc, site, driver, callbacks, command, thrown>>

\* an invocation is at an await of the driver's code, or else in a stretch of code that
\* runs without a break: inside the listener that before() called ("listener"), or
\* between the call of resume() and its first await ("entered").  The other
\* invocations wait until that stretch has ended
Synchronous(k) == loops[k].pc \in {"listener", "entered"}
MayRun(k) == \A j \in 1..Len(loops) : Synchronous(j) => j = k

\* invocation k at the top of its loop: this.currentLineIndex = i, then executeLine up
\* to the return of before(line), or up to the call of the listener by the emit of
\* "paused", the last thing a pausing before() does
ReExecuteLine(k) ==
    /\ loops[k].pc \in {"line", "entered"} /\ MayRun(k)
    /\ LET line == Programs[loops[k].ast][loops[k].i + 1]
           ctx == NodeContext(line.line, 1, nodeDepth)
           d == before(Dbg, ctx)
           listened == /\ isPaused(d)
                       /\ \E j \in 1..Len(d.delivered) :
                             d.delivered[j].listener = ContinuesListener
       IN Returns("before", ctx,
                  [d EXCEPT !.loops[k].pc = IF listened THEN "listener" ELSE "check"])
    /\ currentLineIndex' = loops[k].i
    /\ UNCHANGED <<isExecuting, nodeDepth, locals, pc, site, executed, currentAst, driver,
                   callbacks, command, thrown, commands>>

\* the listener, called while invocation k awaits before(): Debugger.continue resumes
\* the state machine (step mode Run) and calls the callback, whose interpreter(ast, dbg)
\* finds an execution in progress and calls resume(); the new invocation starts at the
\* shared cursor and runs up to its first await before the listener returns.  A
\* session in which the callback would find no execution in progress, and start a new
\* run, is not followed further
ReListener(k) ==
    /\ loops[k].pc = "listener"
    /\ callbacks => (isExecuting /\ Len(loops) < MaxLoops)
    /\ LET d == [continue(Dbg) EXCEPT !.loops[k].pc = "check"]
       IN Returns("continue", Null,
                  IF callbacks
                  THEN [d EXCEPT !.loops =
                           Append(@, [driver |-> "resume", ast |-> currentAst,
                                      i |-> currentLineIndex, pc |-> "entered"])]
                  ELSE d)
    /\ UNCHANGED interpVars

\* invocation k after its await of before(line): the early return when paused, else
\* executeStatement with the before() calls of the statement's nodes
ReExecuteStatement(k) ==
    /\ loops[k].pc = "check" /\ MayRun(k)
    /\ LET stmt == Programs[loops[k].ast][loops[k].i + 1]
           d == beforeSites(Dbg, stmt, nodeDepth + 1, 1)
       IN IF isPaused(Dbg)
          THEN /\ Returns(loops[k].driver, "paused", [Dbg EXCEPT !.loops[k].pc = "loop"])
               /\ UNCHANGED <<locals, executed>>
          ELSE /\ Returns(loops[k].driver, "statement", [d EXCEPT !.loops[k].pc = "loop"])
               /\ locals' = IF stmt.type = "ASSIGNMENT_STATEMENT"
                            THEN [locals EXCEPT !["X"] = Num(5)] ELSE locals
               /\ executed' = Append(executed, stmt.line)
    /\ UNCHANGED <<isExecuting, currentLineIndex, nodeDepth, pc, site, currentAst, driver,
                   callbacks, command, thrown, commands>>

\* the loop of run() and resume() of invocation k after executeLine: return when
\* paused, else i++, else completion
ReRunLoop(k) ==
    /\ loops[k].pc = "loop" /\ MayRun(k)
    /\ IF isPaused(Dbg)
       THEN /\ Returns(loops[k].driver, "loop", [Dbg EXCEPT !.loops[k].pc = "done"])
            /\ UNCHANGED <<isExecuting, currentLineIndex, currentAst>>
       ELSE IF loops[k].i + 1 < Len(Programs[loops[k].ast])
       THEN /\ Returns(loops[k].driver, "loop",
                       [Dbg EXCEPT !.loops[k].i = @ + 1, !.loops[k].pc = "line"])
            /\ UNCHANGED <<isExecuting, currentLineIndex, currentAst>>
       ELSE /\ Returns(loops[k].driver, "loop", [Dbg EXCEPT !.loops[k].pc = "done"])
            /\ isExecuting' = FALSE
            /\ currentAst' = 0
            /\ currentLineIndex' = 0
    /\ UNCHANGED <<nodeDepth, locals, pc, site, executed, driver, callbacks, command,
                   thrown, commands>>

NextRe ==
    \/ SetCallbacks
    \/ ReSubscribe
    \/ ReAddBreakpoint
    \/ ReRun
    \/ \E k \in 1..Len(loops) : ReExecuteLine(k)
    \/ \E k \in 1..Len(loops) : ReListener(k)
    \/ \E k \in 1..Len(loops) : ReExecuteStatement(k)
    \/ \E k \in 1..Len(loops) : ReRunLoop(k)

SpecRe == Init /\ [][NextRe]_vars

-----------------------------------------------------------------------------
(* Claim about re-entrant driver invocations, checked under SpecRe *)

\* C36: when continue() is called while a driver invocation has not returned (from a
\* listener of "paused", with before() on the call stack), no statement is executed
\* twice or skipped: the statements executed are at any time the first ones of the
\* program, each once, in order
C36_OneDriverLoopAtATime ==
    loops # <<>> => IsPrefixOf(executed, Programs[loops[1].ast])

-----------------------------------------------------------------------------
(* Claim about the driver after an exception, checked under Spec *)

\* C37: when an exception has propagated out of run(), resume() or step(), no execution
\* is left in flight, the cursor and the node depth are 0, and the next call of
\* interpreter(ast, dbg) starts a fresh run at the first statement
C37_ExceptionResetsContinuation ==
    [][/\ (~thrown /\ thrown') =>
             (~isExecuting' /\ currentLineIndex' = 0 /\ nodeDepth' = 0)
       /\ (thrown /\ pc \in {"idle", "callback"} /\ pc' = "line") =>
             (driver' = "run" /\ currentLineIndex' = 0)]_vars

-----------------------------------------------------------------------------
(* Claim about the execution context of a pause, checked under SpecSM *)

-----------------------------------------------------------------------------
(* SpecCond: a registry whose breakpoints have expression conditions of the *)
(* form name=value, asked with contexts that bind the name                  *)

CdConditions == {[type |-> "expression", expression |-> e] : e \in {"X=5", "X=0", "X="}}
CdOptions == [enabled : {TRUE}, condition : CdConditions, logMessage : {Null}]
\* the values the frame of the context binds X to
CdValues == {Num(0), Num(5), Str(""), Str("5")}
CdContexts(location) == [location : {location}, locals : [{"X"} -> CdValues]]

CdAddBreakpoint ==
    /\ nextId <= MaxRegistry
    /\ \E location \in BmLocations, o \in CdOptions :
          Returns("addBreakpoint", location, addBreakpoint(Dbg, location, o))
    /\ UNCHANGED interpVars

CdToggleBreakpoint ==
    /\ \E i \in 1..Len(breakpoints) :
          Returns("toggleBreakpoint", breakpoints[i].id,
                  toggleBreakpoint(Dbg, breakpoints[i].id))
    /\ UNCHANGED interpVars

CdShouldPauseAt ==
    /\ BmBounded
    /\ \E location \in BmLocations :
          \E context \in CdContexts(location) :
             Returns("shouldPauseAt", [location |-> location, context |-> context],
                     shouldPauseAt(Dbg, location, context))
    /\ UNCHANGED interpVars

NextCond ==
    \/ CdAddBreakpoint
    \/ CdToggleBreakpoint
    \/ CdShouldPauseAt

SpecCond == Init /\ [][NextCond]_vars

-----------------------------------------------------------------------------
(* Claim about expression conditions, checked under SpecCond *)

\* a value as JavaScript renders it as a string
Rendered(v) == IF v.t = "num" THEN NumToString(v.v) ELSE v.v

\* C39: for an enabled breakpoint whose condition is the expression name=value,
\* shouldPauseAt returns a hit exactly when the value of name in the context, rendered
\* as a string, equals value; 0 and the empty string are values like any other
C39_ExpressionConditionComparesValue ==
    [][call'.op = "shouldPauseAt" =>
          LET i == findBreakpointAt(Dbg, call'.arg.location)
          IN (i # 0 /\ breakpoints[i].enabled) =>
                LET expression == breakpoints[i].condition.expression
                    value == call'.arg.context.locals[SplitName(expression)]
                IN (call'.ret # 0) <=> (Rendered(value) = SplitExpected(expression))]_vars

-----------------------------------------------------------------------------
(* Claim about unsubscribing during delivery, checked under SpecEv *)

\* C40: when a listener unsubscribes a listener while emit delivers, every listener
\* that was subscribed when emit was called and is still subscribed when it returns
\* has been called for the event
C40_UnsubscribeDuringEmitSkipsNobody ==
    [][(call'.op = "emit" /\ listeners' # listeners) =>
          \A listener \in EvListeners :
              /\ (/\ Registrations(listeners[call'.arg], listener) > 0
                  /\ Registrations(listeners'[call'.arg], listener) > 0) =>
                     Invocations(call'.ret, listener, "type") > 0
              /\ (/\ Registrations(globalListeners, listener) > 0
                  /\ Registrations(globalListeners', listener) > 0) =>
                     Invocations(call'.ret, listener, "global") > 0]_vars

====
